---- MODULE Spec2Model ----
(***************************************************************************)
(* Blueprint (CIP-57 / Aiken plutus.json) core: the grouping pass          *)
(* (parseAikenBlueprintStrict), the document validator                     *)
(* (validateAikenBlueprint: JSON parse, structural schema, equality        *)
(* guards) and the value validator (validateParameterValue).               *)
(*                                                                         *)
(* JavaScript values are tagged records.  A string is a sequence of        *)
(* tokens; a token stands for one or more characters that the code never   *)
(* splits ("spend", "else", a hex digit, ".", " ").  A schema object keeps *)
(* its keys in insertion order, as JSON.parse builds it.                   *)
(***************************************************************************)
EXTENDS Integers, Sequences, FiniteSets, TLC

VARIABLES
    validated,   \* parseAikenBlueprintStrict: the validators array being grouped
    cursor,      \* parseAikenBlueprintStrict: index of the next entry of the for-loop
    out,         \* parseAikenBlueprintStrict: out.validators (own keys only)
    pc,          \* position of the running call
    input,       \* validateAikenBlueprint: the argument
    result,      \* validateAikenBlueprint / validateParameterValue: the returned value
    ran,         \* validateAikenBlueprint: the stages that were executed
    call,        \* validateParameterValue: the arguments [schema, value, definitions, cfg]
    store,       \* useBlueprint: fileName, fileType and rawText of the upload store
    inflight     \* useBlueprint: the ingestFile calls that await file.text()

vars == <<validated, cursor, out, pc, input, result, ran, call, store, inflight>>

(***************************************************************************)
(* Bounds                                                                  *)
(***************************************************************************)
MaxGroupEntries == 3
MaxGuardEntries == 3
MaxRawEntries == 2
MaxElems == 2

(***************************************************************************)
(* JavaScript values                                                       *)
(***************************************************************************)
Undefined == [t |-> "undefined"]
Null == [t |-> "null"]
Bool(b) == [t |-> "boolean", b |-> b]
Num(n) == [t |-> "number", n |-> n, integral |-> TRUE]
Frac(n) == [t |-> "number", n |-> n, integral |-> FALSE]
Str(s) == [t |-> "string", s |-> s]
Arr(e) == [t |-> "array", e |-> e]
Obj(kv) == [t |-> "object", kv |-> kv]
BigInt(n) == [t |-> "bigint", n |-> n]
\* an object whose prototype is not Object.prototype (class instance, Object.create(null))
Instance(kv) == [t |-> "instance", kv |-> kv]
\* a function, such as the ones a plain object inherits from Object.prototype
FunctionValue == [t |-> "function"]

\* a sequence given as a function expression, evaluated once into a tuple
Eager(f) == f \o <<>>

\* `const v = ...` followed by the code F that reads v
With(v, F(_)) == F(v)

IsString(x) == x.t = "string"
IsArray(x) == x.t = "array"
IsObject(x) == x.t = "object"

Keys(o) == Eager([i \in 1..Len(o.kv) |-> o.kv[i][1]])

HasKey(o, k) == \E i \in 1..Len(o.kv) : o.kv[i][1] = k

Get(o, k) ==
    IF IsObject(o) /\ HasKey(o, k)
    THEN o.kv[CHOOSE i \in 1..Len(o.kv) : o.kv[i][1] = k][2]
    ELSE Undefined

Truthy(x) ==
    CASE x.t = "undefined" -> FALSE
      [] x.t = "null" -> FALSE
      [] x.t = "boolean" -> x.b
      [] x.t = "number" -> x.n # 0
      [] x.t = "string" -> x.s # <<>>
      [] OTHER -> TRUE

Last(s) == s[Len(s)]
Front(s) == SubSeq(s, 1, Len(s) - 1)

(***************************************************************************)
(* String helpers: trim, split("."), join(".")                             *)
(***************************************************************************)
WS == " "

RECURSIVE TrimStart(_)
TrimStart(s) == IF s # <<>> /\ Head(s) = WS THEN TrimStart(Tail(s)) ELSE s

RECURSIVE TrimEnd(_)
TrimEnd(s) == IF s # <<>> /\ Last(s) = WS THEN TrimEnd(Front(s)) ELSE s

Trim(s) == TrimEnd(TrimStart(s))

RECURSIVE SplitDot(_)
SplitDot(s) ==
    IF s = <<>> THEN << <<>> >>
    ELSE LET r == SplitDot(Tail(s)) IN
         IF Head(s) = "." THEN << <<>> >> \o r
         ELSE << <<Head(s)>> \o r[1] >> \o Tail(r)

RECURSIVE JoinWith(_, _)
JoinWith(parts, sep) ==
    IF parts = <<>> THEN <<>>
    ELSE IF Len(parts) = 1 THEN parts[1]
    ELSE parts[1] \o sep \o JoinWith(Tail(parts), sep)

EndsWith(s, suffix) ==
    /\ Len(s) >= Len(suffix)
    /\ SubSeq(s, Len(s) - Len(suffix) + 1, Len(s)) = suffix

(***************************************************************************)
(* 0) Purpose helpers                                                      *)
(***************************************************************************)
PURPOSES == {"spend", "mint", "withdraw", "publish", "vote", "propose"}

NoPurpose == "undefined"

splitBaseAndPurposeElseIsPurpose(title) ==
    LET parts == SplitDot(Trim(title))
        last == Last(parts)
    IN  IF Len(last) = 1 /\ last[1] \in PURPOSES \cup {"else"}
        THEN [base |-> JoinWith(Front(parts), <<".">>), purpose |-> last[1], isElse |-> FALSE]
        ELSE [base |-> Trim(title), purpose |-> NoPurpose, isElse |-> FALSE]

splitBaseAndPurpose(title) ==
    LET parts == SplitDot(Trim(title))
        last == Last(parts)
    IN  IF last = <<"else">>
        THEN [base |-> JoinWith(Front(parts), <<".">>), purpose |-> NoPurpose, isElse |-> TRUE]
        ELSE IF Len(last) = 1 /\ last[1] \in PURPOSES
        THEN [base |-> JoinWith(Front(parts), <<".">>), purpose |-> last[1], isElse |-> FALSE]
        ELSE [base |-> Trim(title), purpose |-> NoPurpose, isElse |-> FALSE]

(***************************************************************************)
(* 1) Schema summarizer                                                    *)
(***************************************************************************)
EmptyNode == Obj(<<>>)

RECURSIVE TypeHint(_)
TypeHint(node) ==
    LET dt == Get(node, "dataType")
        hashed == IsString(dt) /\ dt.s # <<>> /\ Head(dt.s) = "#"
        HintsOf(arr) == Eager([i \in 1..Len(arr.e) |-> TypeHint(arr.e[i])])
        CtorHint(c) ==
            LET idx == IF Get(c, "index").t = "number"
                       THEN <<ToString(Get(c, "index").n)>> ELSE <<"?">>
                fs == IF IsArray(Get(c, "fields"))
                      THEN HintsOf(Get(c, "fields")) ELSE <<>>
            IN  <<"C">> \o idx \o <<"(">> \o JoinWith(fs, <<", ">>) \o <<")">>
    IN  IF ~Truthy(node) THEN <<"none">>
        ELSE IF IsString(Get(node, "$ref")) THEN <<"ref:">> \o Get(node, "$ref").s
        ELSE IF IsObject(node) /\ Len(node.kv) = 0 THEN <<"opaque{}">>
        ELSE IF hashed /\ dt.s = <<"#", "list">> THEN
            IF IsArray(Get(node, "items"))
            THEN <<"list<">> \o JoinWith(HintsOf(Get(node, "items")), <<" | ">>) \o <<">">>
            ELSE <<"list<">> \o TypeHint(Get(node, "items")) \o <<">">>
        ELSE IF hashed /\ dt.s = <<"#", "pair">> THEN
            <<"pair<">> \o TypeHint(Get(node, "left")) \o <<", ">>
                \o TypeHint(Get(node, "right")) \o <<">">>
        ELSE IF hashed THEN Tail(dt.s)
        ELSE IF dt = Str(<<"integer">>) THEN <<"integer">>
        ELSE IF dt = Str(<<"bytes">>) THEN <<"bytes">>
        ELSE IF dt = Str(<<"list">>) THEN
            <<"list<">> \o TypeHint(Get(node, "items")) \o <<">">>
        ELSE IF dt = Str(<<"map">>) THEN
            <<"map<">> \o TypeHint(Get(node, "keys")) \o <<", ">>
                \o TypeHint(Get(node, "values")) \o <<">">>
        ELSE IF IsArray(Get(node, "anyOf")) THEN
            <<"constructor[">>
                \o JoinWith(Eager([i \in 1..Len(Get(node, "anyOf").e) |->
                                CtorHint(Get(node, "anyOf").e[i])]), <<" | ">>)
                \o <<"]">>
        ELSE <<"unknown">>

summarizeSchema(node) ==
    IF ~Truthy(node) THEN [typeHint |-> <<"none">>, raw |-> EmptyNode]
    ELSE [typeHint |-> TypeHint(node), raw |-> node]

(***************************************************************************)
(* 2) Extract parameters (shared at validator level)                       *)
(***************************************************************************)
extractParameters(params) ==
    IF ~IsArray(params) THEN <<>>
    ELSE Eager([i \in 1..Len(params.e) |->
            [name |-> params.e[i].title, schema |-> summarizeSchema(params.e[i].schema)]])

(***************************************************************************)
(* 3) getOrInitParsedValidator.  out.validators is a plain object literal, *)
(* so a base that names a property of Object.prototype reads as an         *)
(* existing (truthy) value that is not a ParsedValidator.                  *)
(***************************************************************************)
ObjectPrototypeKeys == { <<"toString">> }

InheritedValue == [inherited |-> TRUE]

NoPurposes == [p \in {} |-> Undefined]

InitParsedValidator(base, from) ==
    [name |-> base,
     parameters |-> extractParameters(from.parameters),
     compiledCode |-> from.compiledCode,
     hash |-> from.hash,
     purposes |-> NoPurposes]

\* the pair <<out', pv>>: the table after the call and the record returned
getOrInitParsedValidator(o, base, from) ==
    IF base \in DOMAIN o THEN <<o, o[base]>>
    ELSE IF base \in ObjectPrototypeKeys THEN <<o, InheritedValue>>
    ELSE LET init == InitParsedValidator(base, from)
         IN  <<(base :> init) @@ o, init>>

(***************************************************************************)
(* 4) addPurposeEntry: the ParsedPurpose built from datum/redeemer (each   *)
(* an object or undefined in a validated document)                         *)
(***************************************************************************)
PurposeEntry(src) ==
    [datum |-> IF src.datum # Undefined
               THEN [schema |-> summarizeSchema(src.datum.schema)] ELSE Undefined,
     redeemer |-> IF src.redeemer # Undefined
                  THEN [schema |-> summarizeSchema(src.redeemer.schema)] ELSE Undefined]

\* a purpose entry, once set, is kept
SetPurposeKeepFirst(purposes, purpose, entry) ==
    IF purpose \in DOMAIN purposes THEN purposes
    ELSE [p \in DOMAIN purposes \cup {purpose} |-> IF p = purpose THEN entry ELSE purposes[p]]

SetPurpose(purposes, purpose, entry) ==
    [p \in DOMAIN purposes \cup {purpose} |-> IF p = purpose THEN entry ELSE purposes[p]]

(***************************************************************************)
(* 5) One iteration of the for-loop of parseAikenBlueprintStrict.          *)
(* Returns the table after the iteration and whether the iteration threw   *)
(* (target.purposes is undefined on an inherited value).                   *)
(***************************************************************************)
GroupOneReinit(o, v) ==
    LET sp == splitBaseAndPurpose(v.title) IN
    IF sp.isElse \/ sp.purpose = NoPurpose THEN [out |-> o, threw |-> FALSE]
    ELSE IF sp.base \notin DOMAIN o /\ sp.base \in ObjectPrototypeKeys
         THEN [out |-> o, threw |-> TRUE]
    ELSE LET old == NoPurposes
             pv == [InitParsedValidator(sp.base, v) EXCEPT
                        !.purposes = SetPurpose(old, sp.purpose, PurposeEntry(v))]
         IN  [out |-> [b \in DOMAIN o \cup {sp.base} |-> IF b = sp.base THEN pv ELSE o[b]],
              threw |-> FALSE]

GroupOne(o, v) ==
    LET sp == splitBaseAndPurpose(v.title) IN
    IF sp.isElse \/ sp.purpose = NoPurpose THEN [out |-> o, threw |-> FALSE]
    ELSE LET g == getOrInitParsedValidator(o, sp.base, v)
             o1 == g[1]
             pv == g[2]
         IN  IF pv = InheritedValue THEN [out |-> o1, threw |-> TRUE]
             ELSE [out |-> [o1 EXCEPT ![sp.base].purposes =
                                SetPurpose(@, sp.purpose, PurposeEntry(v))],
                   threw |-> FALSE]

NoValidators == [b \in {} |-> Undefined]

RECURSIVE GroupFrom(_, _, _)
GroupFrom(o, vs, i) ==
    IF i > Len(vs) THEN [out |-> o, threw |-> FALSE]
    ELSE LET r == GroupOne(o, vs[i]) IN
         IF r.threw THEN r ELSE GroupFrom(r.out, vs, i + 1)

\* parseAikenBlueprintStrict(validated).validators as a function of the input
parseAikenBlueprintStrict(vs) == GroupFrom(NoValidators, vs, 1)

(***************************************************************************)
(* AikenPlutusJsonSchema (zod).  A parse returns the issues it raised, in  *)
(* the order zod raises them, whether it aborted (an invalid_type or       *)
(* invalid_union: the enclosing object/array is then INVALID and its own   *)
(* refinements do not run) and the output value.                           *)
(***************************************************************************)
HexDigits ==
    {"0", "1", "2", "3", "4", "5", "6", "7", "8", "9",
     "a", "b", "c", "d", "e", "f", "A", "B", "C", "D", "E", "F"}

HexVal(c) ==
    CASE c = "0" -> 0 [] c = "1" -> 1 [] c = "2" -> 2 [] c = "3" -> 3
      [] c = "4" -> 4 [] c = "5" -> 5 [] c = "6" -> 6 [] c = "7" -> 7
      [] c = "8" -> 8 [] c = "9" -> 9
      [] c \in {"a", "A"} -> 10 [] c \in {"b", "B"} -> 11 [] c \in {"c", "C"} -> 12
      [] c \in {"d", "D"} -> 13 [] c \in {"e", "E"} -> 14 [] c \in {"f", "F"} -> 15

\* HEX_RE = /^[0-9a-fA-F]+$/
HEX_RE(s) == Len(s) >= 1 /\ \A i \in 1..Len(s) : s[i] \in HexDigits

HashHexLen == 56

\* HEX56_RE = /^[0-9a-fA-F]{56}$/
HEX56_RE(s) == Len(s) = HashHexLen /\ \A i \in 1..Len(s) : s[i] \in HexDigits

isEvenLengthHex(s) == HEX_RE(s) /\ Len(s) % 2 = 0

CborByteStringMin == 64
CborByteStringMax == 95

looksLikeCborByteString(s) ==
    IF Len(s) < 2 \/ ~HEX_RE(s) THEN FALSE
    ELSE LET first == 16 * HexVal(s[1]) + HexVal(s[2])
         IN  first >= CborByteStringMin /\ first <= CborByteStringMax

Issue(path, code, message) == [path |-> path, code |-> code, message |-> message]

Parsed(issues, aborted, value) == [issues |-> issues, aborted |-> aborted, value |-> value]

Valid(value) == Parsed(<<>>, FALSE, value)

Invalid(path, code) == Parsed(<<Issue(path, code, <<"zod:", code>>)>>, TRUE, Undefined)

Seg(k) == Str(<<k>>)

\* z.string()
ZString(x, path) == IF IsString(x) THEN Valid(x) ELSE Invalid(path, "invalid_type")

\* z.string().optional()
ZOptString(x, path) == IF x = Undefined THEN Valid(x) ELSE ZString(x, path)

\* keys of an object that are not in `shape`, in data order
RECURSIVE ExtraPairs(_, _)
ExtraPairs(kv, shape) ==
    IF kv = <<>> THEN <<>>
    ELSE (IF kv[1][1] \in shape THEN <<>> ELSE <<kv[1]>>) \o ExtraPairs(Tail(kv), shape)

\* the pairs of the shape keys that are present, in shape order
RECURSIVE ShapePairs(_, _)
ShapePairs(o, shape) ==
    IF shape = <<>> THEN <<>>
    ELSE (IF HasKey(o, shape[1]) THEN << <<shape[1], Get(o, shape[1])>> >> ELSE <<>>)
            \o ShapePairs(o, Tail(shape))

Range(s) == { s[i] : i \in 1..Len(s) }

\* output of a passthrough object: shape keys first, then the unknown keys
Passthrough(o, shape) == Obj(ShapePairs(o, shape) \o ExtraPairs(o.kv, Range(shape)))

IsRefOnly(x) == IsObject(x) /\ Keys(x) = <<"$ref">> /\ IsString(Get(x, "$ref"))

RECURSIVE ConcatIssues(_)
ConcatIssues(rs) == IF rs = <<>> THEN <<>> ELSE rs[1].issues \o ConcatIssues(Tail(rs))

\* a z.object / z.array over the results rs of its members: their issues in
\* order, then the object's own; invalid when a member is
Collect(rs, own, Value(_)) ==
    Parsed(ConcatIssues(rs) \o own, \E i \in 1..Len(rs) : rs[i].aborted, Value(rs))

\* .strict(): unknown keys raise unrecognized_keys
Strict(x, shape, path) ==
    IF ExtraPairs(x.kv, shape) = <<>> THEN <<>>
    ELSE <<Issue(path, "unrecognized_keys", <<"zod:", "unrecognized_keys">>)>>

\* TypeDef = InlineSchema = Annotatable.and(union [...]).  The last option of
\* the union is InlineData, whose own first option is
\* z.object({}).strict().passthrough(): every object whose title/description
\* are strings (Annotatable) is accepted, with the annotations moved first.
TypeDef(x, path) ==
    IF ~IsObject(x)
    THEN Parsed(<<Issue(path, "invalid_type", <<"zod:", "invalid_type">>),
                  Issue(path, "invalid_union", <<"zod:", "invalid_union">>)>>, TRUE, Undefined)
    ELSE Collect(<<ZOptString(Get(x, "title"), path \o <<Seg("title")>>),
                   ZOptString(Get(x, "description"), path \o <<Seg("description")>>)>>,
                 <<>>, LAMBDA rs : Passthrough(x, <<"title", "description">>))

\* SchemaRefOrInlineOrEmpty = union [RefOnly, EmptySchema, TypeDef]
SchemaRefOrInlineOrEmpty(x, path) ==
    IF IsRefOnly(x) \/ x = Obj(<<>>) THEN Valid(x)
    ELSE With(TypeDef(x, path),
              LAMBDA r : IF ~r.aborted THEN r ELSE Invalid(path, "invalid_union"))

\* DatumOrRedeemer = z.object({title: optional string, schema}).strict(), optional
DatumOrRedeemer(x, path) ==
    IF x = Undefined THEN Valid(Undefined)
    ELSE IF ~IsObject(x) THEN Invalid(path, "invalid_type")
    ELSE Collect(<<ZOptString(Get(x, "title"), path \o <<Seg("title")>>),
                   SchemaRefOrInlineOrEmpty(Get(x, "schema"), path \o <<Seg("schema")>>)>>,
                 Strict(x, {"title", "schema"}, path),
                 LAMBDA rs : [title |-> rs[1].value, schema |-> rs[2].value])

\* Parameter = z.object({title: string, schema}).strict()
Parameter(x, path) ==
    IF ~IsObject(x) THEN Invalid(path, "invalid_type")
    ELSE Collect(<<ZString(Get(x, "title"), path \o <<Seg("title")>>),
                   SchemaRefOrInlineOrEmpty(Get(x, "schema"), path \o <<Seg("schema")>>)>>,
                 Strict(x, {"title", "schema"}, path),
                 LAMBDA rs : [title |-> rs[1].value, schema |-> rs[2].value])

\* z.array(Parameter).optional()
Parameters(x, path) ==
    IF x = Undefined THEN Valid(Undefined)
    ELSE IF ~IsArray(x) THEN Invalid(path, "invalid_type")
    ELSE Collect(Eager([i \in 1..Len(x.e) |-> Parameter(x.e[i], path \o <<Num(i - 1)>>)]),
                 <<>>, LAMBDA rs : Arr(Eager([i \in 1..Len(rs) |-> rs[i].value])))

\* compiledCode: string .min(1) .refine(isEvenLengthHex) .refine(looksLikeCbor) .optional()
CompiledCode(x, path) ==
    IF x = Undefined THEN Valid(Undefined)
    ELSE IF ~IsString(x) THEN Invalid(path, "invalid_type")
    ELSE Parsed(
            (IF Len(x.s) < 1
             THEN <<Issue(path, "too_small", <<"compiledCode cannot be empty">>)>> ELSE <<>>)
            \o (IF ~isEvenLengthHex(x.s)
                THEN <<Issue(path, "custom", <<"compiledCode must be hex with even length">>)>>
                ELSE <<>>)
            \o (IF ~looksLikeCborByteString(x.s)
                THEN <<Issue(path, "custom", <<"compiledCode should be a CBOR byte-string">>)>>
                ELSE <<>>),
            FALSE, x)

\* hash: string .regex(HEX56_RE) .optional()
HashField(x, path) ==
    IF x = Undefined THEN Valid(Undefined)
    ELSE IF ~IsString(x) THEN Invalid(path, "invalid_type")
    ELSE Parsed(IF HEX56_RE(x.s) THEN <<>>
                ELSE <<Issue(path, "invalid_string", <<"hash must be 56 hex chars (blake2b-224)">>)>>,
                FALSE, x)

\* the superRefine of Validator: v.title.trim().endsWith(".else")
TitleIsElse(title) == EndsWith(Trim(title), <<".", "else">>)

ValidatorRefineElseUnchecked(v, path) ==
    IF ~TitleIsElse(v.title) /\ ~Truthy(v.compiledCode)
    THEN <<Issue(path \o <<Seg("compiledCode")>>, "custom",
                 <<"compiledCode is required (non-.else validator)">>)>>
    ELSE <<>>

ValidatorRefine(v, path) ==
    IF ~TitleIsElse(v.title) THEN
        IF ~Truthy(v.compiledCode)
        THEN <<Issue(path \o <<Seg("compiledCode")>>, "custom",
                     <<"compiledCode is required (non-.else validator)">>)>>
        ELSE <<>>
    ELSE
        IF ~Truthy(v.compiledCode) /\ ~Truthy(v.hash)
        THEN <<Issue(path \o <<Seg("hash")>>, "custom",
                     <<"For .else validators, provide compiledCode or hash">>)>>
        ELSE <<>>

\* .superRefine(f): f runs on the parsed value unless the value is invalid
SuperRefine(r, Refine(_)) ==
    IF r.aborted THEN r ELSE Parsed(r.issues \o Refine(r.value), FALSE, r.value)

\* Validator = z.object({...}) (unknown keys stripped) .superRefine(...)
Validator(x, path) ==
    IF ~IsObject(x) THEN Invalid(path, "invalid_type")
    ELSE SuperRefine(
            Collect(<<ZString(Get(x, "title"), path \o <<Seg("title")>>),
                      DatumOrRedeemer(Get(x, "datum"), path \o <<Seg("datum")>>),
                      DatumOrRedeemer(Get(x, "redeemer"), path \o <<Seg("redeemer")>>),
                      Parameters(Get(x, "parameters"), path \o <<Seg("parameters")>>),
                      CompiledCode(Get(x, "compiledCode"), path \o <<Seg("compiledCode")>>),
                      HashField(Get(x, "hash"), path \o <<Seg("hash")>>)>>,
                    <<>>,
                    LAMBDA rs : [title |-> IF rs[1].aborted THEN <<>> ELSE rs[1].value.s,
                                 datum |-> rs[2].value, redeemer |-> rs[3].value,
                                 parameters |-> rs[4].value, compiledCode |-> rs[5].value,
                                 hash |-> rs[6].value]),
            LAMBDA v : ValidatorRefine(v, path))

\* validators: z.array(Validator).min(1)
Validators(x, path) ==
    IF ~IsArray(x) THEN Invalid(path, "invalid_type")
    ELSE Collect(Eager([i \in 1..Len(x.e) |-> Validator(x.e[i], path \o <<Num(i - 1)>>)]),
                 IF Len(x.e) < 1
                 THEN <<Issue(path, "too_small", <<"zod:", "too_small">>)>> ELSE <<>>,
                 LAMBDA rs : Eager([i \in 1..Len(rs) |-> rs[i].value]))

PlutusVersions == {Str(<<"v1">>), Str(<<"v2">>), Str(<<"v3">>)}

\* compiler: z.object({name: string, version: string}).passthrough()
Compiler(x, path) ==
    IF ~IsObject(x) THEN Invalid(path, "invalid_type")
    ELSE Collect(<<ZString(Get(x, "name"), path \o <<Seg("name")>>),
                   ZString(Get(x, "version"), path \o <<Seg("version")>>)>>,
                 <<>>, LAMBDA rs : Passthrough(x, <<"name", "version">>))

PreambleShape == <<"title", "description", "version", "plutusVersion", "compiler", "license">>

\* plutusVersion: z.enum(["v1", "v2", "v3"])
PlutusVersion(x, path) ==
    IF x \in PlutusVersions THEN Valid(x)
    ELSE IF IsString(x)
    THEN Parsed(<<Issue(path, "invalid_enum_value", <<"zod:", "invalid_enum_value">>)>>,
                FALSE, Undefined)
    ELSE Invalid(path, "invalid_type")

\* the pairs kv with the value of key k replaced by v
SetPair(kv, k, v) == Eager([i \in 1..Len(kv) |-> IF kv[i][1] = k THEN <<k, v>> ELSE kv[i]])

\* preamble: z.object({...}).passthrough()
Preamble(x, path) ==
    IF ~IsObject(x) THEN Invalid(path, "invalid_type")
    ELSE Collect(<<ZString(Get(x, "title"), path \o <<Seg("title")>>),
                   ZOptString(Get(x, "description"), path \o <<Seg("description")>>),
                   ZString(Get(x, "version"), path \o <<Seg("version")>>),
                   PlutusVersion(Get(x, "plutusVersion"), path \o <<Seg("plutusVersion")>>),
                   Compiler(Get(x, "compiler"), path \o <<Seg("compiler")>>),
                   ZOptString(Get(x, "license"), path \o <<Seg("license")>>)>>,
                 <<>>,
                 LAMBDA rs : Obj(SetPair(Passthrough(x, PreambleShape).kv, "compiler",
                                         rs[5].value)))

\* definitions: z.record(TypeDef).optional()
Definitions(x, path) ==
    IF x = Undefined THEN Valid(Undefined)
    ELSE IF ~IsObject(x) THEN Invalid(path, "invalid_type")
    ELSE Collect(Eager([i \in 1..Len(x.kv) |-> TypeDef(x.kv[i][2], path \o <<Seg(x.kv[i][1])>>)]),
                 <<>>,
                 LAMBDA rs : Obj(Eager([i \in 1..Len(rs) |-> <<x.kv[i][1], rs[i].value>>])))

TopLevelShape == <<"preamble", "validators", "definitions">>

TopLevelPassthrough(x, path) == <<>>

\* .strict() on the document object
TopLevelStrict(x, path) == Strict(x, Range(TopLevelShape), path)

\* AikenPlutusJsonSchema.safeParse(json)
safeParse(json) ==
    IF ~IsObject(json) THEN Invalid(<<>>, "invalid_type")
    ELSE Collect(<<Preamble(Get(json, "preamble"), <<Seg("preamble")>>),
                   Validators(Get(json, "validators"), <<Seg("validators")>>),
                   Definitions(Get(json, "definitions"), <<Seg("definitions")>>)>>,
                 TopLevelStrict(json, <<>>),
                 LAMBDA rs : [preamble |-> rs[1].value, validators |-> rs[2].value,
                              definitions |-> rs[3].value])

(***************************************************************************)
(* validatePlutusJson.ts: path formatting, equality guards                 *)
(***************************************************************************)
ToText(x) ==
    CASE x.t = "string" -> x.s
      [] x.t = "number" -> <<ToString(x.n)>>
      [] OTHER -> <<"[object]">>

\* root?.validators?.[seg]?.title
TitleAt(root, seg) ==
    LET vs == Get(root, "validators") IN
    IF IsArray(vs) /\ seg + 1 \in 1..Len(vs.e) THEN Get(vs.e[seg + 1], "title") ELSE Undefined

formatPathUsingTitles(pathArr, root) ==
    LET part(i) ==
            IF pathArr[i].t = "number" /\ i > 1 /\ pathArr[i - 1] = Seg("validators")
            THEN IF Truthy(TitleAt(root, pathArr[i].n))
                 THEN ToText(TitleAt(root, pathArr[i].n))
                 ELSE <<"validators[", ToString(pathArr[i].n), "]">>
            ELSE ToText(pathArr[i])
    IN  JoinWith(Eager([i \in 1..Len(pathArr) |-> part(i)]), <<".">>)

\* the keys that occur in the documents, in the order of String.prototype
\* comparison (UTF-16 code units), which Array.prototype.sort() uses
SortedKeys ==
    <<"$ref", "anyOf", "dataType", "description", "fields", "index", "items", "keys",
      "left", "maxLength", "minLength", "name", "right", "schema", "title", "values",
      "x-extra">>

KeyRank(k) == CHOOSE i \in 1..Len(SortedKeys) : SortedKeys[i] = k

\* kv with the pair e inserted before the first pair of greater key
RECURSIVE InsertByKey(_, _)
InsertByKey(kv, e) ==
    IF kv = <<>> THEN <<e>>
    ELSE IF KeyRank(e[1]) < KeyRank(kv[1][1]) THEN <<e>> \o kv
    ELSE <<kv[1]>> \o InsertByKey(Tail(kv), e)

RECURSIVE sortKeysDeep(_)
RECURSIVE SortPairsDeep(_)
\* Object.keys(x).sort().reduce(...): the pairs in key order, values sorted deeply
SortPairsDeep(kv) ==
    IF kv = <<>> THEN <<>>
    ELSE InsertByKey(SortPairsDeep(Tail(kv)), <<kv[1][1], sortKeysDeep(kv[1][2])>>)

sortKeysDeep(x) ==
    IF IsArray(x) THEN Arr(Eager([i \in 1..Len(x.e) |-> sortKeysDeep(x.e[i])]))
    ELSE IF IsObject(x) THEN Obj(SortPairsDeep(x.kv))
    ELSE x

\* JSON.stringify: the text as a sequence of tokens
RECURSIVE Stringify(_)
Stringify(x) ==
    CASE x.t = "string" -> <<"\"">> \o x.s \o <<"\"">>
      [] x.t = "number" -> <<ToString(x.n)>>
      [] x.t = "boolean" -> <<IF x.b THEN "true" ELSE "false">>
      [] x.t = "null" -> <<"null">>
      [] x.t = "array" ->
            <<"[">> \o JoinWith(Eager([i \in 1..Len(x.e) |->
                                    IF x.e[i] = Undefined THEN <<"null">>
                                    ELSE Stringify(x.e[i])]), <<",">>) \o <<"]">>
      [] x.t = "object" ->
            LET present == SelectSeq(x.kv, LAMBDA kv : kv[2] # Undefined)
            IN  <<"{">> \o JoinWith(Eager([i \in 1..Len(present) |->
                                        <<"\"", present[i][1], "\"", ":">>
                                            \o Stringify(present[i][2])]), <<",">>) \o <<"}">>

stableParamKey(p) ==
    Stringify(sortKeysDeep(Obj(<< <<"name", p.title>>, <<"schema", p.schema>> >>)))

BagOfSeq(q) == [x \in Range(q) |-> Cardinality({i \in 1..Len(q) : q[i] = x})]

\* A.sort() and B.sort() agree element by element iff A and B hold the same
\* keys with the same multiplicities
sameParamSets(a, b) ==
    LET A == IF IsArray(a) THEN Eager([i \in 1..Len(a.e) |-> stableParamKey(a.e[i])]) ELSE <<>>
        B == IF IsArray(b) THEN Eager([i \in 1..Len(b.e) |-> stableParamKey(b.e[i])]) ELSE <<>>
    IN  BagOfSeq(A) = BagOfSeq(B)

GuardError(idx, field, base, root) ==
    [path |-> formatPathUsingTitles(<<Seg("validators"), Num(idx), Seg(field)>>, root),
     message |-> <<field, " must be identical across purposes for ", "\"">> \o base \o <<"\"">>,
     code |-> "EQUALITY_GUARD"]

\* the forEach of equalityGuards: splitBaseAndPurpose of every entry, once
SplitAll(vs) == Eager([i \in 1..Len(vs) |-> splitBaseAndPurpose(vs[i].title)])

Grouped(sp) == ~sp.isElse /\ sp.purpose # NoPurpose

\* groups.get(b).items: indices (1-based) of the entries of base b, in array order
RECURSIVE GroupItems(_, _, _)
GroupItems(sps, b, i) ==
    IF i > Len(sps) THEN <<>>
    ELSE (IF Grouped(sps[i]) /\ sps[i].base = b THEN <<i>> ELSE <<>>)
            \o GroupItems(sps, b, i + 1)

\* the keys of `groups`, in insertion order
RECURSIVE GroupBases(_, _, _)
GroupBases(sps, i, seen) ==
    IF i > Len(sps) THEN <<>>
    ELSE IF Grouped(sps[i]) /\ sps[i].base \notin seen
         THEN <<sps[i].base>> \o GroupBases(sps, i + 1, seen \cup {sps[i].base})
         ELSE GroupBases(sps, i + 1, seen)

ItemErrorsNoHash(ref, v, idx, base, root) ==
    (IF ref.compiledCode # v.compiledCode
     THEN <<GuardError(idx, "compiledCode", base, root)>> ELSE <<>>)
    \o (IF ~sameParamSets(ref.parameters, v.parameters)
        THEN <<GuardError(idx, "parameters", base, root)>> ELSE <<>>)

\* the body of `for (const { idx, v } of rest)`; idx is the 0-based array index
ItemErrors(ref, v, idx, base, root) ==
    (IF ref.compiledCode # v.compiledCode
     THEN <<GuardError(idx, "compiledCode", base, root)>> ELSE <<>>)
    \o (IF ref.hash # v.hash
        THEN <<GuardError(idx, "hash", base, root)>> ELSE <<>>)
    \o (IF ~sameParamSets(ref.parameters, v.parameters)
        THEN <<GuardError(idx, "parameters", base, root)>> ELSE <<>>)

RECURSIVE FlattenSeq(_)
FlattenSeq(ss) == IF ss = <<>> THEN <<>> ELSE ss[1] \o FlattenSeq(Tail(ss))

GroupErrors(vs, sps, base, root) ==
    LET items == GroupItems(sps, base, 1) IN
    IF Len(items) <= 1 THEN <<>>
    ELSE FlattenSeq(Eager([k \in 1..(Len(items) - 1) |->
            ItemErrors(vs[items[1]], vs[items[k + 1]], items[k + 1] - 1, base, root)]))

AllGroupErrors(vs, sps, root) ==
    LET bases == GroupBases(sps, 1, {})
    IN  Eager([k \in 1..Len(bases) |-> GroupErrors(vs, sps, bases[k], root)])

equalityGuardsFirstGroupOnly(ast, rawForPaths) ==
    LET errs == AllGroupErrors(ast.validators, SplitAll(ast.validators), rawForPaths)
        bad == { k \in 1..Len(errs) : errs[k] # <<>> }
    IN  IF bad = {} THEN <<>> ELSE errs[CHOOSE k \in bad : \A j \in bad : k <= j]

equalityGuards(ast, rawForPaths) ==
    FlattenSeq(AllGroupErrors(ast.validators, SplitAll(ast.validators), rawForPaths))

(***************************************************************************)
(* JSON.parse.  A string is either a sequence of tokens (s) or the JSON    *)
(* serialisation of a value (text); the parse of the latter is that value, *)
(* token strings parse only when they spell a JSON literal.                *)
(***************************************************************************)
SerialOf(v) == [t |-> "string", text |-> v]

JSONparse(x) ==
    IF "text" \in DOMAIN x THEN [threw |-> FALSE, value |-> x.text]
    ELSE IF x.s = <<"null">> THEN [threw |-> FALSE, value |-> Null]
    ELSE IF x.s = <<"true">> THEN [threw |-> FALSE, value |-> Bool(TRUE)]
    ELSE [threw |-> TRUE, value |-> Undefined]

(***************************************************************************)
(* validateAikenBlueprint(input): the returned value and the stages run    *)
(***************************************************************************)
Failure(errors, issues) == [ok |-> FALSE, errors |-> errors, issues |-> issues]

Success(data) == [ok |-> TRUE, data |-> data]

StructuralErrors(issues, json) ==
    Eager([i \in 1..Len(issues) |->
        [path |-> formatPathUsingTitles(issues[i].path, json),
         message |-> issues[i].message,
         code |-> issues[i].code]])

validateParsedGuardsAlways(json, stages) ==
    LET r == safeParse(json)
        eq == IF r.aborted THEN <<>> ELSE equalityGuards(r.value, json)
    IN  IF r.issues # <<>> \/ eq # <<>>
        THEN [result |-> Failure(StructuralErrors(r.issues, json) \o eq, r.issues),
              ran |-> stages \cup {"safeParse", "equalityGuards"}]
        ELSE [result |-> Success(r.value), ran |-> stages \cup {"safeParse", "equalityGuards"}]

\* lines 35-59: safeParse, then the equality guards, then success
validateParsed(json, stages) ==
    LET r == safeParse(json) IN
    IF r.issues # <<>>
    THEN [result |-> Failure(StructuralErrors(r.issues, json), r.issues),
          ran |-> stages \cup {"safeParse"}]
    ELSE LET equalityErrors == equalityGuards(r.value, json) IN
         IF Len(equalityErrors) > 0
         THEN [result |-> Failure(equalityErrors, <<>>),
               ran |-> stages \cup {"safeParse", "equalityGuards"}]
         ELSE [result |-> Success(r.value),
               ran |-> stages \cup {"safeParse", "equalityGuards"}]

validateAikenBlueprintParseLenient(inp) ==
    IF IsString(inp) /\ ~JSONparse(inp).threw
    THEN validateParsed(JSONparse(inp).value, {"JSON.parse"})
    ELSE validateParsed(inp, IF IsString(inp) THEN {"JSON.parse"} ELSE {})

validateAikenBlueprint(inp) ==
    IF IsString(inp)
    THEN LET j == JSONparse(inp) IN
         IF j.threw
         THEN [result |-> Failure(<<[path |-> <<>>, message |-> <<"Invalid JSON: ">>,
                                     code |-> "JSON_PARSE"]>>, <<>>),
               ran |-> {"JSON.parse"}]
         ELSE validateParsed(j.value, {"JSON.parse"})
    ELSE validateParsed(inp, {})

(***************************************************************************)
(* params/paramChecker.ts: validateParameterValue                          *)
(***************************************************************************)
\* typeof x === "object"
TypeofObject(x) == x.t \in {"object", "instance", "array", "null"}

\* x.k (x?.k for undefined): own properties of objects, undefined elsewhere
Prop(x, k) ==
    IF x.t \in {"object", "instance"} /\ HasKey(x, k)
    THEN x.kv[CHOOSE i \in 1..Len(x.kv) : x.kv[i][1] = k][2]
    ELSE Undefined

\* Object.keys(x).length
OwnKeyCount(x) ==
    IF x.t \in {"object", "instance"} THEN Len(x.kv)
    ELSE IF IsArray(x) THEN Len(x.e) ELSE 0

ROk == [ok |-> TRUE, message |-> <<>>, threw |-> FALSE]
RFail(message) == [ok |-> FALSE, message |-> message, threw |-> FALSE]
\* unbounded recursion: RangeError (maximum call stack size exceeded)
RThrew == [ok |-> FALSE, message |-> <<"RangeError">>, threw |-> TRUE]

\* fail(`${prefix}${r.message}`), an exception passing through unchanged
Wrap(prefix, r) == IF r.threw THEN r ELSE RFail(prefix \o r.message)

isRef(x) == Truthy(x) /\ TypeofObject(x) /\ IsString(Prop(x, "$ref"))

isEmpty(x) ==
    Truthy(x) /\ TypeofObject(x)
    /\ ~(x.t \in {"object", "instance"} /\ HasKey(x, "$ref"))
    /\ OwnKeyCount(x) = 0

isPlainObject(x) == x.t = "object"

isEmptyObject(x) == isPlainObject(x) /\ OwnKeyCount(x) = 0

isInteger(x) == x.t = "bigint" \/ (x.t = "number" /\ x.integral)

isHex(x) == IsString(x) /\ (\A i \in 1..Len(x.s) : x.s[i] \in HexDigits) /\ Len(x.s) % 2 = 0

isPlutusDataNoRecords(x) == isInteger(x) \/ isHex(x) \/ IsArray(x)

isPlutusData(x) == isInteger(x) \/ isHex(x) \/ IsArray(x) \/ isPlainObject(x)

RefPrefix == "#/definitions/"

\* Object.prototype itself, which `definitions["__proto__"]` yields on a plain
\* object: an object without own enumerable keys whose prototype is null
ObjectPrototype == Instance(<<>>)

\* resolveRef: /^#\/definitions\/(.+)$/, then definitions[key] on a plain
\* object (own keys, else what Object.prototype supplies)
resolveRef(ref, definitions) ==
    IF Len(ref) = 2 /\ ref[1] = RefPrefix
    THEN IF HasKey(definitions, ref[2]) THEN Get(definitions, ref[2])
         ELSE IF <<ref[2]>> \in ObjectPrototypeKeys THEN FunctionValue
         ELSE IF ref[2] = "__proto__" THEN ObjectPrototype
         ELSE Undefined
    ELSE Undefined

DEFAULT_CFG == [unitAccepts |-> Str(<<"both">>), mapAccepts |-> Str(<<"array-tuples">>)]

MergeConfigDefaultsWin(cfg) == DEFAULT_CFG

\* { ...DEFAULT_CFG, ...cfg }: every own key of cfg overrides the default
MergeConfig(cfg) ==
    [k \in {"unitAccepts", "mapAccepts"} |-> IF HasKey(cfg, k) THEN Get(cfg, k) ELSE DEFAULT_CFG[k]]

\* case "#unit" (lines 62-66)
UnitCase(cfg, value) ==
    IF cfg.unitAccepts \in {Str(<<"null">>), Str(<<"both">>)} /\ value = Null THEN ROk
    ELSE IF cfg.unitAccepts \in {Str(<<"empty-object">>), Str(<<"both">>)} /\ isEmptyObject(value)
    THEN ROk
    ELSE RFail(<<"Expected unit (null or {})">>)

RECURSIVE checkNode(_, _, _, _, _)
RECURSIVE checkInline(_, _, _, _)
RECURSIVE CheckAlternatives(_, _, _, _, _)
RECURSIVE CheckElements(_, _, _, _, _)
RECURSIVE CheckTuples(_, _, _, _, _)
RECURSIVE CheckEntries(_, _, _, _, _)
RECURSIVE CheckFields(_, _, _, _, _)

CheckAlternativesFirstOnly(alts, v, definitions, cfg, k) ==
    IF alts = <<>> THEN RFail(<<"no list alternative matched">>)
    ELSE checkNode(alts[1], v, definitions, cfg, {})

\* `for (const alt of items)`: the first alternative that accepts v
CheckAlternatives(alts, v, definitions, cfg, k) ==
    IF k > Len(alts) THEN RFail(<<"no list alternative matched">>)
    ELSE LET r == checkNode(alts[k], v, definitions, cfg, {}) IN
         IF r.threw \/ r.ok THEN r ELSE CheckAlternatives(alts, v, definitions, cfg, k + 1)

\* the element loops of "#list" and "list"
CheckElements(items, value, definitions, cfg, i) ==
    IF i > Len(value) THEN ROk
    ELSE LET r == IF IsArray(items)
                  THEN CheckAlternatives(items.e, value[i], definitions, cfg, 1)
                  ELSE checkNode(items, value[i], definitions, cfg, {})
         IN  IF r.threw THEN r
             ELSE IF ~r.ok
             THEN IF IsArray(items)
                  THEN RFail(<<"Element ", ToString(i - 1), ": no list alternative matched">>)
                  ELSE Wrap(<<"Element ", ToString(i - 1), ": ">>, r)
             ELSE CheckElements(items, value, definitions, cfg, i + 1)

CheckList(inline, value, definitions, cfg) ==
    IF ~IsArray(value) THEN RFail(<<"Expected array">>)
    ELSE CheckElements(Prop(inline, "items"), value.e, definitions, cfg, 1)

CheckPairRightFirst(inline, value, definitions, cfg) ==
    IF ~IsArray(value) \/ Len(value.e) # 2 THEN RFail(<<"Expected [left, right]">>)
    ELSE LET rR == checkNode(Prop(inline, "right"), value.e[2], definitions, cfg, {}) IN
         IF ~rR.ok THEN Wrap(<<"right: ">>, rR)
         ELSE LET rL == checkNode(Prop(inline, "left"), value.e[1], definitions, cfg, {}) IN
              IF ~rL.ok THEN Wrap(<<"left: ">>, rL) ELSE ROk

\* "#pair"
CheckPair(inline, value, definitions, cfg) ==
    IF ~IsArray(value) \/ Len(value.e) # 2 THEN RFail(<<"Expected [left, right]">>)
    ELSE LET rL == checkNode(Prop(inline, "left"), value.e[1], definitions, cfg, {}) IN
         IF ~rL.ok THEN Wrap(<<"left: ">>, rL)
         ELSE LET rR == checkNode(Prop(inline, "right"), value.e[2], definitions, cfg, {}) IN
              IF ~rR.ok THEN Wrap(<<"right: ">>, rR) ELSE ROk

\* "map" over an array of [key, value] tuples
CheckTuples(inline, value, definitions, cfg, i) ==
    IF i > Len(value) THEN ROk
    ELSE IF ~IsArray(value[i]) \/ Len(value[i].e) # 2
    THEN RFail(<<"Entry ", ToString(i - 1), ": expected [key, value]">>)
    ELSE LET rK == checkNode(Prop(inline, "keys"), value[i].e[1], definitions, cfg, {}) IN
         IF ~rK.ok THEN Wrap(<<"Entry ", ToString(i - 1), " key: ">>, rK)
         ELSE LET rV == checkNode(Prop(inline, "values"), value[i].e[2], definitions, cfg, {}) IN
              IF ~rV.ok THEN Wrap(<<"Entry ", ToString(i - 1), " value: ">>, rV)
              ELSE CheckTuples(inline, value, definitions, cfg, i + 1)

\* the characters of a property name, as `for (const [k, v] of Object.entries)`
\* hands the key to the key schema: a string value
KeyText(k) ==
    CASE k = "ab" -> <<"a", "b">>
      [] k = "" -> <<>>
      [] OTHER -> <<k>>

\* "map" over Object.entries(value) of a plain object
CheckEntries(inline, kv, definitions, cfg, i) ==
    IF i > Len(kv) THEN ROk
    ELSE LET rk == checkNode(Prop(inline, "keys"), Str(KeyText(kv[i][1])), definitions, cfg, {}) IN
         IF ~rk.ok THEN Wrap(<<"Map key: ">>, rk)
         ELSE LET rv == checkNode(Prop(inline, "values"), kv[i][2], definitions, cfg, {}) IN
              IF ~rv.ok THEN Wrap(<<"Map value for key \"", kv[i][1], "\": ">>, rv)
              ELSE CheckEntries(inline, kv, definitions, cfg, i + 1)

CheckMapAnyMode(inline, value, definitions, cfg) ==
    IF IsArray(value) THEN CheckTuples(inline, value.e, definitions, cfg, 1)
    ELSE IF isPlainObject(value) THEN CheckEntries(inline, value.kv, definitions, cfg, 1)
    ELSE RFail(<<"Expected map">>)

CheckMap(inline, value, definitions, cfg) ==
    IF IsArray(value) THEN CheckTuples(inline, value.e, definitions, cfg, 1)
    ELSE IF cfg.mapAccepts \in {Str(<<"object">>), Str(<<"both">>)} /\ isPlainObject(value)
    THEN CheckEntries(inline, value.kv, definitions, cfg, 1)
    ELSE RFail(<<"Expected map">>)

\* `${ctor}` of a number; Frac(n) stands for the non-integral number n + 1/2
NumberText(x) == IF x.integral THEN ToString(x.n) ELSE ToString(x.n) \o ".5"

CheckFieldsUnchecked(expected, fields, definitions, cfg, i) == ROk

CheckFields(expected, fields, definitions, cfg, i) ==
    IF i > Len(fields) THEN ROk
    ELSE LET r == checkNode(expected[i], fields[i], definitions, cfg, {}) IN
         IF ~r.ok THEN Wrap(<<"Field ", ToString(i - 1), ": ">>, r)
         ELSE CheckFields(expected, fields, definitions, cfg, i + 1)

\* the anyOf (constructor) branch
CheckConstructor(inline, value, definitions, cfg) ==
    IF ~isPlainObject(value) \/ Prop(value, "constructor").t # "number"
       \/ ~IsArray(Prop(value, "fields"))
    THEN RFail(<<"Expected { constructor: number, fields: any[] }">>)
    ELSE LET ctor == Prop(value, "constructor")
             fields == Prop(value, "fields").e
             alts == Prop(inline, "anyOf").e
             hits == { k \in 1..Len(alts) : Prop(alts[k], "index").t = "number"
                                            /\ Prop(alts[k], "index") = ctor }
         IN  IF hits = {} THEN RFail(<<"No constructor with index ", NumberText(ctor)>>)
             ELSE LET alt == alts[CHOOSE k \in hits : \A j \in hits : k <= j]
                      expected == IF IsArray(Prop(alt, "fields")) THEN Prop(alt, "fields").e
                                  ELSE <<>>
                  IN  IF Len(fields) # Len(expected)
                      THEN RFail(<<"Constructor ", NumberText(ctor), " expected ",
                                   ToString(Len(expected)), " field(s)">>)
                      ELSE CheckFields(expected, fields, definitions, cfg, 1)

checkInline(inline, value, definitions, cfg) ==
    LET dt == Prop(inline, "dataType") IN
    IF IsString(dt) /\ dt.s # <<>> /\ dt.s[1] = "#"
    THEN CASE dt.s = <<"#", "integer">> ->
                IF isInteger(value) THEN ROk ELSE RFail(<<"Expected integer">>)
           [] dt.s = <<"#", "bytes">> ->
                IF isHex(value) THEN ROk ELSE RFail(<<"Expected hex string">>)
           [] dt.s = <<"#", "string">> ->
                IF IsString(value) THEN ROk ELSE RFail(<<"Expected string">>)
           [] dt.s = <<"#", "boolean">> ->
                IF value.t = "boolean" THEN ROk ELSE RFail(<<"Expected boolean">>)
           [] dt.s = <<"#", "unit">> -> UnitCase(cfg, value)
           [] dt.s = <<"#", "list">> -> CheckList(inline, value, definitions, cfg)
           [] dt.s = <<"#", "pair">> -> CheckPair(inline, value, definitions, cfg)
           [] OTHER -> RFail(<<"Unsupported dataType: ">> \o dt.s)
    ELSE IF dt = Str(<<"integer">>)
    THEN IF isInteger(value) THEN ROk ELSE RFail(<<"Expected integer">>)
    ELSE IF dt = Str(<<"bytes">>)
    THEN IF isHex(value) THEN ROk ELSE RFail(<<"Expected hex string">>)
    ELSE IF dt = Str(<<"list">>) THEN CheckList(inline, value, definitions, cfg)
    ELSE IF dt = Str(<<"map">>) THEN CheckMap(inline, value, definitions, cfg)
    ELSE IF IsArray(Prop(inline, "anyOf")) THEN CheckConstructor(inline, value, definitions, cfg)
    ELSE RFail(<<"Unsupported schema node">>)

\* checkNode.  `chain` holds the references followed since the last inline
\* node: a reference met again on its own chain is followed for ever.
checkNode(node, value, definitions, cfg, chain) ==
    IF isRef(node)
    THEN LET ref == Prop(node, "$ref").s
             resolved == resolveRef(ref, definitions)
         IN  IF ~Truthy(resolved) THEN RFail(<<"Unresolved $ref: ">> \o ref)
             ELSE IF ref \in chain THEN RThrew
             ELSE checkNode(resolved, value, definitions, cfg, chain \cup {ref})
    ELSE IF isEmpty(node)
    THEN IF isPlutusData(value) THEN ROk ELSE RFail(<<"Expected valid Plutus Data">>)
    ELSE checkInline(node, value, definitions, cfg)

\* validateParameterValue(schema, value, definitions?, cfg = {}): the returned
\* value, or threw when the call ends in an exception
validateParameterValue(schema, value, definitions, cfg) ==
    LET config == MergeConfig(IF cfg = Undefined THEN Obj(<<>>) ELSE cfg)
        defs == IF definitions \in {Undefined, Null} THEN Obj(<<>>) ELSE definitions
        r == checkNode(schema, value, defs, config, {})
    IN  [threw |-> r.threw,
         value |-> IF r.ok THEN [ok |-> TRUE] ELSE [ok |-> FALSE, message |-> r.message]]

(***************************************************************************)
(* Inputs of the grouping pass: structurally valid validator entries       *)
(* (AikenBlueprint["validators"][number]); an absent key reads undefined.  *)
(***************************************************************************)
SInteger == Obj(<< <<"dataType", Str(<<"integer">>)>> >>)
SBytes == Obj(<< <<"dataType", Str(<<"bytes">>)>> >>)
SHashUnit == Obj(<< <<"dataType", Str(<<"#", "unit">>)>> >>)
SRefFoo == Obj(<< <<"$ref", Str(<<"#/definitions/", "Foo">>)>> >>)

Hash56(c) == Str(Eager([i \in 1..HashHexLen |-> c]))

CodeA == Str(<<"4", "e", "4", "d", "0", "1">>)
CodeB == Str(<<"5", "f", "9", "9">>)

Param(name, schema) == [title |-> Str(<<name>>), schema |-> schema]
Slot(schema) == [title |-> Undefined, schema |-> schema]

GroupTitles ==
    { <<"a", ".", "spend">>, <<" ", "a", ".", "mint">>, <<"b", ".", "spend">>,
      <<"a", ".", "else">>, <<"a", ".", "foo">>, <<"toString", ".", "spend">> }

GroupFields ==
    { [parameters |-> Arr(<<Param("p1", SInteger)>>), compiledCode |-> CodeA,
       hash |-> Hash56("a"), datum |-> Slot(SBytes), redeemer |-> Slot(SRefFoo)],
      [parameters |-> Undefined, compiledCode |-> CodeB,
       hash |-> Undefined, datum |-> Undefined, redeemer |-> Slot(EmptyNode)] }

Entry(title, f) ==
    [title |-> title, parameters |-> f.parameters, compiledCode |-> f.compiledCode,
     hash |-> f.hash, datum |-> f.datum, redeemer |-> f.redeemer]

GroupEntries == { Entry(t, f) : t \in GroupTitles, f \in GroupFields }

GroupDocs == UNION { [1..n -> GroupEntries] : n \in 1..MaxGroupEntries }

(***************************************************************************)
(* Specification of the grouping pass                                      *)
(***************************************************************************)
InitGroup ==
    /\ validated \in GroupDocs
    /\ cursor = 1
    /\ out = NoValidators
    /\ pc = "loop"
    /\ input = Undefined
    /\ result = Undefined
    /\ ran = {}
    /\ call = Undefined
    /\ store = Undefined
    /\ inflight = Undefined

\* one iteration of `for (const v of validated.validators)`
GroupStep ==
    /\ pc = "loop"
    /\ cursor <= Len(validated)
    /\ LET r == GroupOne(out, validated[cursor]) IN
       IF r.threw
       THEN /\ pc' = "threw"
            /\ UNCHANGED <<out, cursor>>
       ELSE /\ out' = r.out
            /\ cursor' = cursor + 1
            /\ pc' = "loop"
    /\ UNCHANGED <<validated, input, result, ran, call, store, inflight>>

\* `return out`
GroupReturn ==
    /\ pc = "loop"
    /\ cursor > Len(validated)
    /\ pc' = "done"
    /\ UNCHANGED <<validated, cursor, out, input, result, ran, call, store, inflight>>

NextGroup == GroupStep \/ GroupReturn

SpecGroup == InitGroup /\ [][NextGroup]_vars

(***************************************************************************)
(* Inputs of validateAikenBlueprint: raw JSON values and texts             *)
(***************************************************************************)
OptPair(k, v) == IF v = Undefined THEN <<>> ELSE << <<k, v>> >>

RawParam(name, schema) == Obj(<< <<"title", Str(<<name>>)>>, <<"schema", schema>> >>)

RawEntry(title, code, hash, params) ==
    Obj(<< <<"title", Str(title)>> >> \o OptPair("parameters", params)
        \o OptPair("compiledCode", code) \o OptPair("hash", hash))

SBytesMax == Obj(<< <<"dataType", Str(<<"bytes">>)>>, <<"maxLength", Num(32)>> >>)
SBytesMaxReordered == Obj(<< <<"maxLength", Num(32)>>, <<"dataType", Str(<<"bytes">>)>> >>)

ParamsPQ == Arr(<<RawParam("p", SInteger), RawParam("q", SBytesMax)>>)
ParamsQP == Arr(<<RawParam("q", SBytesMaxReordered), RawParam("p", SInteger)>>)
ParamsPQQ == Arr(<<RawParam("p", SInteger), RawParam("q", SBytesMax), RawParam("q", SBytesMax)>>)

\* purpose entries of base a that differ in one shared field at a time, and
\* entries of base b that differ in the hash
GuardEntries ==
    { RawEntry(t, f[1], f[2], f[3]) :
        t \in {<<"a", ".", "spend">>, <<"a", ".", "mint">>},
        f \in { <<CodeA, Hash56("a"), ParamsPQ>>, <<CodeB, Hash56("a"), ParamsPQ>>,
                <<CodeA, Undefined, ParamsPQ>>, <<CodeA, Hash56("a"), ParamsQP>>,
                <<CodeA, Hash56("a"), ParamsPQQ>> } }
    \cup { RawEntry(<<"b", ".", "spend">>, CodeA, h, ParamsPQ) : h \in {Hash56("a"), Undefined} }

PreambleOk ==
    Obj(<< <<"title", Str(<<"demo">>)>>, <<"version", Str(<<"0.0.0">>)>>,
           <<"plutusVersion", Str(<<"v3">>)>>,
           <<"compiler", Obj(<< <<"name", Str(<<"Aiken">>)>>,
                                <<"version", Str(<<"v1">>)>> >>)>> >>)

PreambleExtraKey == Obj(<< <<"x-extra", Num(1)>> >> \o PreambleOk.kv)

RawDoc(preamble, validators, extra) ==
    Obj(extra \o OptPair("preamble", preamble) \o OptPair("validators", validators))

GuardDocs ==
    { RawDoc(PreambleOk, Arr(es), <<>>) :
        es \in UNION { [1..n -> GuardEntries] : n \in 1..MaxGuardEntries } }

\* documents of two bases with two purpose entries each
EntriesOf(title) == { e \in GuardEntries : Get(e, "title") = Str(title) }

TwoBaseDocs ==
    { RawDoc(PreambleOk, Arr(<<a1, b1, a2, b2>>), <<>>) :
        a1 \in EntriesOf(<<"a", ".", "spend">>), b1 \in EntriesOf(<<"b", ".", "spend">>),
        a2 \in EntriesOf(<<"a", ".", "mint">>), b2 \in EntriesOf(<<"b", ".", "spend">>) }

GuardInputs == GuardDocs \cup TwoBaseDocs

CodeNotCbor == Str(<<"0", "0", "f", "f">>)
CodeEmpty == Str(<<>>)
HashShort == Str(<<"a", "b">>)

RawEntries ==
    { RawEntry(<<"a", ".", "spend">>, c, Undefined, Undefined) : c \in {Undefined, CodeA} }
    \cup { RawEntry(<<"a", ".", "else">>, Undefined, h, Undefined) :
            h \in {Undefined, Hash56("a")} }
    \cup { RawEntry(<<"a", ".", "mint">>, CodeB, Undefined, Undefined),
           RawEntry(<<"else">>, Undefined, Hash56("a"), Undefined),
           RawEntry(<<"a", ".", "mint">>, CodeB, HashShort, Undefined),
           RawEntry(<<"a", ".", "spend">>, CodeEmpty, Undefined, Undefined),
           RawEntry(<<"a", ".", "spend">>, CodeNotCbor, Undefined, Undefined),
           Obj(<< <<"x-extra", Num(1)>> >>
               \o RawEntry(<<"a", ".", "spend">>, CodeA, Undefined, Undefined).kv),
           Obj(<< <<"compiledCode", CodeA>> >>),
           Null }

TopLevelExtra == << <<"x-extra", Num(1)>> >>

RawDocs ==
    { RawDoc(p, v, x) :
        p \in {PreambleOk, PreambleExtraKey, Undefined},
        v \in {Undefined} \cup
              { Arr(es) : es \in UNION { [1..n -> RawEntries] : n \in 0..MaxRawEntries } },
        x \in {<<>>, TopLevelExtra} }

Garbage == Str(<<"{", "oops">>)

ParsedInputs == RawDocs \cup {Null, Arr(<<>>)}

TextInputs ==
    { SerialOf(v) : v \in RawDocs }
    \cup { Garbage, Str(<<>>), Str(<<"null">>), SerialOf(Garbage), SerialOf(Str(<<"null">>)),
           SerialOf(SerialOf(RawDoc(PreambleOk,
                Arr(<<RawEntry(<<"a", ".", "spend">>, CodeA, Undefined, Undefined)>>), <<>>))) }

Inputs == ParsedInputs \cup TextInputs

(***************************************************************************)
(* Specifications of validateAikenBlueprint: over raw documents and texts  *)
(* (SpecValidate) and over structurally valid multi-purpose documents      *)
(* (SpecGuard)                                                             *)
(***************************************************************************)
InitCall(inputs) ==
    /\ input \in inputs
    /\ pc = "call"
    /\ result = Undefined
    /\ ran = {}
    /\ validated = <<>>
    /\ cursor = 1
    /\ out = NoValidators
    /\ call = Undefined
    /\ store = Undefined
    /\ inflight = Undefined

Validate ==
    /\ pc = "call"
    /\ LET r == validateAikenBlueprint(input) IN
       /\ result' = r.result
       /\ ran' = r.ran
    /\ pc' = "returned"
    /\ UNCHANGED <<input, validated, cursor, out, call, store, inflight>>

NextValidate == Validate

InitValidate == InitCall(Inputs)

SpecValidate == InitValidate /\ [][NextValidate]_vars

InitGuard == InitCall(GuardInputs)

SpecGuard == InitGuard /\ [][NextValidate]_vars

(***************************************************************************)
(* Specification of validateParameterValue: one call per behaviour         *)
(***************************************************************************)
DataType(dt) == Obj(<< <<"dataType", Str(dt)>> >>)

Ref(key) == Obj(<< <<"$ref", Str(<<RefPrefix, key>>)>> >>)

SMap(keys, values) == Obj(DataType(<<"map">>).kv \o << <<"keys", keys>>, <<"values", values>> >>)

\* one alternative of a constructor-sum node
SCtor(index, fields) == Obj(<< <<"index", Num(index)>>, <<"fields", Arr(fields)>> >>)

SAnyOf(alts) == Obj(<< <<"anyOf", Arr(alts)>> >>)

\* C0(#integer, #bytes) | C1()
SCtorPair == SAnyOf(<< SCtor(0, <<DataType(<<"#", "integer">>), DataType(<<"#", "bytes">>)>>),
                       SCtor(1, <<>>) >>)

\* two alternatives that carry the same index
SCtorSameIndex == SAnyOf(<< SCtor(0, <<DataType(<<"#", "integer">>)>>),
                            SCtor(0, <<DataType(<<"#", "bytes">>)>>) >>)

\* list nodes of the data layer and of the hash-prefixed layer
SList(items) == Obj(DataType(<<"list">>).kv \o << <<"items", items>> >>)

SHashList(items) == Obj(DataType(<<"#", "list">>).kv \o << <<"items", items>> >>)

\* items given as an array of schemas
SIntBytes == Arr(<<DataType(<<"#", "integer">>), DataType(<<"#", "bytes">>)>>)

SHashPair(left, right) == Obj(DataType(<<"#", "pair">>).kv \o << <<"left", left>>, <<"right", right>> >>)

SUnitTitled == Obj(<< <<"title", Str(<<"Unit">>)>>, <<"dataType", Str(<<"#", "unit">>)>> >>)

SPolicyId == Obj(<< <<"title", Str(<<"PolicyId">>)>>, <<"dataType", Str(<<"bytes">>)>> >>)

\* the definition table of the calls: Alias -> Unit, Loop -> Loop
CheckDefinitions ==
    Obj(<< <<"Unit", SHashUnit>>, <<"Alias", Ref("Unit")>>, <<"Loop", Ref("Loop")>>,
           <<"A", Ref("B")>>, <<"B", DataType(<<"#", "bytes">>)>>, <<"Dangling", Ref("Missing")>>,
           <<"cardano/assets/PolicyId", SPolicyId>> >>)

\* schema nodes that are, or resolve to, a #unit node
UnitSchemas == { SHashUnit, SUnitTitled, Ref("Unit"), Ref("Alias") }

CheckSchemas ==
    UnitSchemas
    \cup { Ref("Loop"), Ref("Missing"), Ref("toString"), Ref("__proto__"), Obj(<<>>),
           Undefined, Null, Num(1), Str(<<"integer">>), Arr(<<>>), Arr(<<SInteger>>),
           Obj(<< <<"title", Str(<<"Unit">>)>> >>), Obj(<< <<"$ref", Num(1)>> >>),
           SList(Undefined), SMap(Undefined, Undefined), SAnyOf(<<Null>>),
           Ref("A"), Ref("Dangling"), Ref("cardano~1assets~1PolicyId"),
           Ref("cardano/assets/PolicyId"), SList(Ref("A")), SMap(Ref("A"), Ref("B")),
           SHashPair(Ref("A"), Ref("Dangling")), SAnyOf(<<SCtor(1, <<Ref("A")>>)>>),
           DataType(<<"#", "integer">>), DataType(<<"#", "bytes">>),
           DataType(<<"#", "string">>), DataType(<<"#", "boolean">>),
           DataType(<<"#", "foo">>), SInteger, SBytes,
           Obj(DataType(<<"#", "list">>).kv \o << <<"items", SHashUnit>> >>),
           Obj(DataType(<<"list">>).kv
               \o << <<"items", Arr(<<DataType(<<"#", "integer">>), Ref("Unit")>>)>> >>),
           Obj(DataType(<<"#", "pair">>).kv
               \o << <<"left", SHashUnit>>, <<"right", SInteger>> >>),
           Obj(DataType(<<"map">>).kv \o << <<"keys", SBytes>>, <<"values", SHashUnit>> >>),
           SList(Obj(<<>>)), SMap(DataType(<<"#", "string">>), Obj(<<>>)),
           SList(SIntBytes), SHashList(SIntBytes), SList(SInteger), SList(SList(SInteger)),
           SHashList(Arr(<<DataType(<<"#", "string">>), DataType(<<"#", "bytes">>)>>)),
           SCtorPair, SCtorSameIndex,
           SMap(SBytes, SInteger), SMap(DataType(<<"#", "string">>), DataType(<<"#", "integer">>)),
           Obj(<< <<"anyOf", Arr(<<Obj(<< <<"index", Num(0)>>,
                                          <<"fields", Arr(<<SHashUnit>>)>> >>)>>)>> >>) }

CheckElems == { Null, Obj(<<>>), Num(1), Str(<<"a", "b">>) }

\* map values in the array-of-tuples form: one entry, and a well-typed entry
\* followed by a second one
TupleValues ==
    LET entries == { Arr(<<k, v>>) : k \in {Str(<<"a", "b">>), Str(<<"a">>)},
                                     v \in {Null, Num(1), Str(<<"a", "b">>)} }
    IN  { Arr(<<e>>) : e \in entries }
        \cup { Arr(<<Arr(<<Str(<<"a", "b">>), Num(1)>>), e>>) : e \in entries }

\* arrays of arrays: one inner array, and a well-typed inner array followed by
\* a second one
NestedValues ==
    LET inner == { Arr(<<Num(1)>>), Arr(<<Null>>), Arr(<<Num(1), Null>>), Arr(<<Null, Null>>) }
    IN  { Arr(<<a>>) : a \in inner } \cup { Arr(<<Arr(<<Num(1)>>), a>>) : a \in inner }

\* a constructor-shaped record
VCtor(tag, fields) == Obj(<< <<"constructor", tag>>, <<"fields", Arr(fields)>> >>)

CtorValues ==
    { VCtor(Num(0), <<Num(1), Str(<<"a", "b">>)>>), VCtor(Num(1), <<>>), VCtor(Num(7), <<>>),
      VCtor(Num(0), <<Num(1)>>), VCtor(Num(0), <<Str(<<"a", "b">>)>>),
      VCtor(Num(0), <<Str(<<"a">>), Str(<<"a", "b">>)>>), VCtor(Num(0), <<Num(1), Str(<<"a">>)>>),
      VCtor(Num(0), <<Str(<<"a">>), Str(<<"a">>)>>),
      VCtor(Num(1), <<Str(<<"a", "b">>)>>), VCtor(Num(1), <<Num(1)>>),
      VCtor(BigInt(1), <<>>), VCtor(Frac(1), <<>>), VCtor(Str(<<"1">>), <<>>),
      Obj(<< <<"constructor", Num(1)>> >>), Obj(<< <<"fields", Arr(<<>>)>> >>),
      Obj(<< <<"constructor", Num(1)>>, <<"fields", Obj(<<>>)>> >>),
      Instance(<< <<"constructor", Num(1)>>, <<"fields", Arr(<<>>)>> >>) }

\* map values in the object form
RecordValues ==
    { Obj(<< <<k, v>> >>) : k \in {"ab", "a"}, v \in {Null, Num(1)} }
    \cup { Obj(<< <<"ab", Num(1)>>, <<"a", v>> >>) : v \in {Null, Num(1)} }

CheckValues ==
    { Undefined, Null, Obj(<<>>), Instance(<<>>),
      Obj(<< <<"constructor", Num(0)>>, <<"fields", Arr(<<Null>>)>> >>),
      Num(0), Frac(1), BigInt(0), Str(<<>>), Str(<<"null">>), Str(<<"0", "0">>),
      Str(<<"a">>), Str(<<"z", "z">>), FunctionValue,
      Bool(FALSE), Bool(TRUE) }
    \cup { Arr(es) : es \in UNION { [1..n -> CheckElems] : n \in 0..MaxElems } }
    \cup TupleValues \cup RecordValues \cup CtorValues \cup NestedValues

UnitAcceptsValues == { Str(<<"null">>), Str(<<"empty-object">>), Str(<<"both">>), Undefined }

CheckConfigs ==
    { Undefined, Obj(<<>>), Obj(<< <<"mapAccepts", Str(<<"object">>)>> >>),
      Obj(<< <<"mapAccepts", Str(<<"array-tuples">>)>> >>) }
    \cup { Obj(<< <<"unitAccepts", u>> >>) : u \in UnitAcceptsValues }
    \cup { Obj(<< <<"mapAccepts", Str(<<"both">>)>>, <<"unitAccepts", u>> >>) :
            u \in UnitAcceptsValues \ {Undefined} }

CheckCalls ==
    [schema : CheckSchemas, value : CheckValues,
     definitions : {Undefined, CheckDefinitions}, cfg : CheckConfigs]

InitCheck ==
    /\ call \in CheckCalls
    /\ pc = "call"
    /\ result = Undefined
    /\ input = Undefined
    /\ ran = {}
    /\ validated = <<>>
    /\ cursor = 1
    /\ out = NoValidators
    /\ store = Undefined
    /\ inflight = Undefined

Check ==
    /\ pc = "call"
    /\ LET r == validateParameterValue(call.schema, call.value, call.definitions, call.cfg) IN
       IF r.threw
       THEN /\ pc' = "threw"
            /\ UNCHANGED result
       ELSE /\ pc' = "returned"
            /\ result' = r.value
    /\ UNCHANGED <<call, input, ran, validated, cursor, out, store, inflight>>

NextCheck == Check

SpecCheck == InitCheck /\ [][NextCheck]_vars

(***************************************************************************)
(* Claims about the grouping pass                                          *)
(***************************************************************************)
LastSegment(title) == Last(SplitDot(Trim(title)))

BaseOfTitle(title) == JoinWith(Front(SplitDot(Trim(title))), <<".">>)

\* the entries the loop has consumed so far
Processed == 1..(cursor - 1)

\* entry i carries recognized purpose p for base b
Contributes(vs, i, b, p) ==
    /\ p \in PURPOSES
    /\ LastSegment(vs[i].title) = <<p>>
    /\ BaseOfTitle(vs[i].title) = b

\* C1: every key of every purpose map is one of the six purposes, and each
\* key present was contributed by an entry whose last dotted segment is that
\* purpose; `else` and unrecognized suffixes never surface as purpose keys.
C1_PurposeKeysRecognized ==
    \A b \in DOMAIN out :
        /\ DOMAIN out[b].purposes \subseteq PURPOSES
        /\ \A p \in DOMAIN out[b].purposes :
              \E i \in Processed : Contributes(validated, i, b, p)

C1_Witness ==
    /\ pc = "done"
    /\ DOMAIN out # {}
    /\ \E i \in 1..Len(validated) : LastSegment(validated[i].title) = <<"else">>
    /\ \E i \in 1..Len(validated) : LastSegment(validated[i].title) = <<"foo">>

\* the first processed entry, in array order, that belongs to base b
FirstOfBase(vs, b, upto) ==
    LET S == { i \in 1..upto : \E p \in PURPOSES : Contributes(vs, i, b, p) }
    IN  CHOOSE i \in S : \A j \in S : i <= j

\* C2: first seen wins: the stored parameters, compiledCode and hash of every
\* base are those of the first entry of that base in array order.
C2_FirstSeenWins ==
    \A b \in DOMAIN out :
        LET first == validated[FirstOfBase(validated, b, cursor - 1)] IN
        /\ out[b].parameters = extractParameters(first.parameters)
        /\ out[b].compiledCode = first.compiledCode
        /\ out[b].hash = first.hash

C2_Witness ==
    /\ pc = "done"
    /\ \E b \in DOMAIN out : \E j \in 1..Len(validated) :
          /\ j > FirstOfBase(validated, b, Len(validated))
          /\ \E p \in PURPOSES : Contributes(validated, j, b, p)
          /\ validated[j].compiledCode # out[b].compiledCode
          /\ validated[j].hash # out[b].hash
          /\ extractParameters(validated[j].parameters) # out[b].parameters

Permute(vs, f) == Eager([i \in 1..Len(vs) |-> vs[f[i]]])

SameBasesAndPurposes(o1, o2) ==
    /\ DOMAIN o1 = DOMAIN o2
    /\ \A b \in DOMAIN o1 : DOMAIN o1[b].purposes = DOMAIN o2[b].purposes

\* C3: every permutation of the validator entries yields the same set of base
\* names and, per base, the same set of purpose keys (and a pass that does
\* not complete does not complete for any permutation either).
C3_OrderIndependent ==
    /\ pc = "done" =>
          \A f \in Permutations(1..Len(validated)) :
              LET r == parseAikenBlueprintStrict(Permute(validated, f)) IN
              ~r.threw /\ SameBasesAndPurposes(r.out, out)
    /\ pc = "threw" =>
          \A f \in Permutations(1..Len(validated)) :
              parseAikenBlueprintStrict(Permute(validated, f)).threw

C3_Witness ==
    /\ pc = "done"
    /\ Cardinality(DOMAIN out) = 2
    /\ \E b \in DOMAIN out : Cardinality(DOMAIN out[b].purposes) = 2
    /\ splitBaseAndPurpose(validated[1].title).base
          # splitBaseAndPurpose(validated[Len(validated)].title).base

(***************************************************************************)
(* Claims about validateAikenBlueprint                                     *)
(***************************************************************************)
Returned == pc = "returned"

\* the value the structural check receives
Json == IF IsString(input) THEN JSONparse(input).value ELSE input

StructurallyValid(json) == safeParse(json).issues = <<>>

\* the raw validator entries of a document, as far as it has any
RawValidators(json) ==
    IF IsArray(Get(json, "validators")) THEN Get(json, "validators").e ELSE <<>>

RawTitle(e) == IF IsString(Get(e, "title")) THEN Get(e, "title").s ELSE <<>>

\* per raw entry: <<base>> when its last dotted segment is a recognized
\* purpose, <<>> otherwise
RawBaseOf(e) ==
    IF \E p \in PURPOSES : LastSegment(RawTitle(e)) = <<p>>
    THEN <<BaseOfTitle(RawTitle(e))>> ELSE <<>>

RawBasesOf(es) == Eager([i \in 1..Len(es) |-> RawBaseOf(es[i])])

\* entry f is the first purpose entry of the base of the later purpose entry i
IsLaterOf(bs, i, f) ==
    /\ f < i
    /\ bs[i] # <<>>
    /\ bs[f] = bs[i]
    /\ \A g \in 1..(f - 1) : bs[g] # bs[i]

\* an object as an unordered map, recursively: key order is forgotten
RECURSIVE Canon(_)
Canon(x) ==
    IF IsObject(x)
    THEN [t |-> "object",
          m |-> [k \in { x.kv[i][1] : i \in 1..Len(x.kv) } |-> Canon(Get(x, k))]]
    ELSE IF IsArray(x) THEN Arr(Eager([i \in 1..Len(x.e) |-> Canon(x.e[i])]))
    ELSE x

ParamKeys(ps) ==
    IF IsArray(ps)
    THEN Eager([i \in 1..Len(ps.e) |-> <<Get(ps.e[i], "title"), Canon(Get(ps.e[i], "schema"))>>])
    ELSE <<>>

SameKeySet(ps, qs) == Range(ParamKeys(ps)) = Range(ParamKeys(qs))

SameKeyBag(ps, qs) == BagOfSeq(ParamKeys(ps)) = BagOfSeq(ParamKeys(qs))

GuardPath(e, field) == <<"validators", ".">> \o RawTitle(e) \o <<".", field>>

\* the paths expected for entry i against first entry f, parameters compared by Same
ExpectedFor(es, i, f, Same(_, _)) ==
    (IF Get(es[f], "compiledCode") # Get(es[i], "compiledCode")
     THEN <<GuardPath(es[i], "compiledCode")>> ELSE <<>>)
    \o (IF Get(es[f], "hash") # Get(es[i], "hash")
        THEN <<GuardPath(es[i], "hash")>> ELSE <<>>)
    \o (IF ~Same(Get(es[f], "parameters"), Get(es[i], "parameters"))
        THEN <<GuardPath(es[i], "parameters")>> ELSE <<>>)

ExpectedOver(es, bs, Same(_, _)) ==
    FlattenSeq(Eager([i \in 1..Len(es) |->
        IF \E f \in 1..Len(es) : IsLaterOf(bs, i, f)
        THEN ExpectedFor(es, i, CHOOSE f \in 1..Len(es) : IsLaterOf(bs, i, f), Same)
        ELSE <<>>]))

ExpectedPaths(es, Same(_, _)) == ExpectedOver(es, RawBasesOf(es), Same)

ErrorPaths(res) == Eager([i \in 1..Len(res.errors) |-> res.errors[i].path])

ErrorCodes(res) == { res.errors[i].code : i \in 1..Len(res.errors) }

GuardOutcomeIs(expected) ==
    IF expected = <<>> THEN result.ok
    ELSE /\ ~result.ok
         /\ ErrorCodes(result) = {"EQUALITY_GUARD"}
         /\ BagOfSeq(ErrorPaths(result)) = BagOfSeq(expected)

\* C4 as stated: on a structurally valid document there is exactly one
\* EQUALITY_GUARD error per (later purpose entry, field) that differs from the
\* base's first purpose entry, parameters being compared as a SET of canonical
\* (name, schema) keys.
C4_Original ==
    (Returned /\ StructurallyValid(Json)) =>
        GuardOutcomeIs(ExpectedPaths(RawValidators(Json), SameKeySet))

\* C4 amended: the same, with parameters compared as a MULTISET of canonical
\* (name, schema) keys: reordering parameters or schema keys is no difference,
\* repeating a parameter is.
C4_GuardErrorsExact ==
    (Returned /\ StructurallyValid(Json)) =>
        GuardOutcomeIs(ExpectedPaths(RawValidators(Json), SameKeyBag))

C4_Witness ==
    /\ Returned
    /\ ~result.ok
    /\ \E i, j \in 1..Len(result.errors) :
          /\ result.errors[i].path = <<"validators", ".", "a", ".", "mint", ".", "compiledCode">>
          /\ result.errors[j].path = <<"validators", ".", "b", ".", "spend", ".", "hash">>

\* C5: when validateAikenBlueprint returns ok, all purpose entries of one base
\* agree pairwise on compiledCode, hash and the parameter set.
C5_OkImpliesPairwiseEqual ==
    (Returned /\ result.ok) =>
        LET es == RawValidators(Json)
            bs == RawBasesOf(es)
        IN
        \A i, j \in 1..Len(es) :
            (bs[i] # <<>> /\ bs[i] = bs[j]) =>
                /\ Get(es[i], "compiledCode") = Get(es[j], "compiledCode")
                /\ Get(es[i], "hash") = Get(es[j], "hash")
                /\ SameKeySet(Get(es[i], "parameters"), Get(es[j], "parameters"))

C5_Witness ==
    /\ Returned
    /\ result.ok
    /\ LET es == RawValidators(Json) IN
       /\ Len(es) = 3
       /\ \A i \in 1..3 : RawBaseOf(es[i]) = << <<"a">> >>
       /\ Get(es[2], "parameters") # Get(es[3], "parameters")
       /\ Get(es[1], "parameters") # Get(es[3], "parameters")

(***************************************************************************)
(* Claims about validateAikenBlueprint over raw documents and texts        *)
(***************************************************************************)
\* the input is text that JSON.parse rejects
Malformed == IsString(input) /\ JSONparse(input).threw

\* shared-field drift between two purpose entries of one base
HasDrift(json) == ExpectedPaths(RawValidators(json), SameKeyBag) # <<>>

\* C6 as stated: a document with a structural violation and shared-field drift
\* fails with both the EQUALITY_GUARD violation and the structural one in its
\* error list.
C6_Original ==
    (Returned /\ ~Malformed /\ ~StructurallyValid(Json) /\ HasDrift(Json)) =>
        /\ ~result.ok
        /\ "EQUALITY_GUARD" \in ErrorCodes(result)
        /\ ErrorCodes(result) # {"EQUALITY_GUARD"}

\* C6 amended: equality guards are collected only when the structural check
\* passes.  A document with a structural violation fails with exactly its
\* structural violations, drift or not, and the guards are not run; a failure
\* that carries an EQUALITY_GUARD error carries nothing else and comes from a
\* structurally valid document.
C6_GuardsOnlyAfterStructuralPass ==
    (Returned /\ ~Malformed) =>
        IF ~StructurallyValid(Json)
        THEN /\ ~result.ok
             /\ "EQUALITY_GUARD" \notin ErrorCodes(result)
             /\ Len(result.errors) = Len(safeParse(Json).issues)
             /\ result.issues = safeParse(Json).issues
             /\ "equalityGuards" \notin ran
        ELSE /\ "equalityGuards" \in ran
             /\ HasDrift(Json) <=> ~result.ok
             /\ ~result.ok => ErrorCodes(result) = {"EQUALITY_GUARD"}

C6_Witness ==
    /\ Returned
    /\ ~StructurallyValid(Json)
    /\ HasDrift(Json)
    /\ ~result.ok
    /\ \E i \in 1..Len(result.errors) : result.errors[i].code = "custom"

\* C7: in every accepted document the validators list is non-empty, every
\* entry whose trailing title segment is not `else` has a compiledCode, and
\* every `else` entry has a compiledCode or a hash.
C7_AcceptedValidatorsCarryCode ==
    (Returned /\ result.ok) =>
        LET es == RawValidators(Json) IN
        /\ Len(es) >= 1
        /\ Len(result.data.validators) = Len(es)
        /\ \A i \in 1..Len(es) :
              IF LastSegment(RawTitle(es[i])) = <<"else">>
              THEN IsString(Get(es[i], "compiledCode")) \/ IsString(Get(es[i], "hash"))
              ELSE IsString(Get(es[i], "compiledCode"))

C7_Witness ==
    /\ Returned
    /\ result.ok
    /\ LET es == RawValidators(Json) IN
       /\ \E i \in 1..Len(es) :
             /\ RawTitle(es[i]) = <<"a", ".", "else">>
             /\ Get(es[i], "compiledCode") = Undefined
             /\ IsString(Get(es[i], "hash"))
       /\ \E i \in 1..Len(es) : LastSegment(RawTitle(es[i])) = <<"spend">>

\* on malformed text: exactly one JSON_PARSE error with the empty path, and
\* neither the structural nor the equality check has run
JsonParseFailureOnly ==
    Malformed =>
        /\ ~result.ok
        /\ Len(result.errors) = 1
        /\ result.errors[1].code = "JSON_PARSE"
        /\ result.errors[1].path = <<>>
        /\ ran = {"JSON.parse"}

\* C8 as stated: malformed text gives exactly one JSON_PARSE error and runs no
\* check; text that is valid JSON gives the result of the parsed value.
C8_Original ==
    Returned =>
        /\ JsonParseFailureOnly
        /\ (IsString(input) /\ ~Malformed) =>
                result = validateAikenBlueprint(JSONparse(input).value).result

\* C8 amended: malformed text gives exactly one JSON_PARSE error and runs no
\* check; text that is valid JSON whose value is not itself a string gives the
\* result of the parsed value.
C8_TextAsParsedValue ==
    Returned =>
        /\ JsonParseFailureOnly
        /\ (IsString(input) /\ ~Malformed /\ ~IsString(JSONparse(input).value)) =>
                result = validateAikenBlueprint(JSONparse(input).value).result

C8_Witness ==
    /\ Returned
    /\ input = Garbage
    /\ ~result.ok
    /\ result.errors[1].code = "JSON_PARSE"

\* the keys of a parsed document
DataKeys(data) ==
    {"preamble", "validators"} \cup (IF data.definitions = Undefined THEN {} ELSE {"definitions"})

UnknownTopLevel(json) == ExtraPairs(json.kv, Range(TopLevelShape))

\* the document without its unknown top-level keys is accepted
OtherwiseValid(json) ==
    validateAikenBlueprint(Obj(ShapePairs(json, TopLevelShape))).result.ok

UnitCall ==
    \/ call.schema \in {SHashUnit, SUnitTitled}
    \/ call.schema \in UnitSchemas /\ call.definitions = CheckDefinitions

\* the unitAccepts setting of the call, `both` when it is omitted
UnitAccepts ==
    IF call.cfg # Undefined /\ HasKey(call.cfg, "unitAccepts")
    THEN Get(call.cfg, "unitAccepts") ELSE Str(<<"both">>)

\* C10: on a #unit node validateParameterValue accepts null iff unitAccepts is
\* `null` or `both`, accepts the empty plain object iff unitAccepts is
\* `empty-object` or `both`, rejects every other value under every setting,
\* and an omitted unitAccepts behaves as `both`.
C10_UnitAccepts ==
    (pc # "call" /\ call # Undefined /\ UnitCall) =>
        /\ pc = "returned"
        /\ result.ok <=>
            \/ call.value = Null /\ UnitAccepts \in {Str(<<"null">>), Str(<<"both">>)}
            \/ call.value = Obj(<<>>)
               /\ UnitAccepts \in {Str(<<"empty-object">>), Str(<<"both">>)}

C10_Witness ==
    /\ pc = "returned"
    /\ call # Undefined
    /\ call.schema = Ref("Alias")
    /\ call.definitions = CheckDefinitions
    /\ call.value = Obj(<<>>)
    /\ call.cfg = Obj(<< <<"unitAccepts", Str(<<"null">>)>> >>)
    /\ ~result.ok

\* the primitive schema nodes of the calls
PrimitiveNodes ==
    {SBytes, SInteger, SHashUnit}
    \cup { DataType(<<"#", d>>) : d \in {"bytes", "integer", "string", "boolean"} }

\* the call is about a map node over primitive key and value schemas
MapCall ==
    /\ Prop(call.schema, "dataType") = Str(<<"map">>)
    /\ Prop(call.schema, "keys") \in PrimitiveNodes
    /\ Prop(call.schema, "values") \in PrimitiveNodes

\* the mapAccepts setting of the call, `array-tuples` when it is omitted
MapAccepts ==
    IF call.cfg # Undefined /\ HasKey(call.cfg, "mapAccepts")
    THEN Get(call.cfg, "mapAccepts") ELSE Str(<<"array-tuples">>)

\* value v matches the primitive or opaque schema node s
Fits(s, v) ==
    CASE s \in {SBytes, DataType(<<"#", "bytes">>)} ->
            /\ IsString(v)
            /\ Len(v.s) % 2 = 0
            /\ \A i \in 1..Len(v.s) : v.s[i] \in HexDigits
      [] s \in {SInteger, DataType(<<"#", "integer">>)} ->
            v.t = "bigint" \/ (v.t = "number" /\ v.integral)
      [] s = DataType(<<"#", "string">>) -> IsString(v)
      [] s = DataType(<<"#", "boolean">>) -> v.t = "boolean"
      [] s = SHashUnit ->
            \/ v = Null /\ UnitAccepts \in {Str(<<"null">>), Str(<<"both">>)}
            \/ v = Obj(<<>>) /\ UnitAccepts \in {Str(<<"empty-object">>), Str(<<"both">>)}

\* every entry of the array v is a 2-element [key, value] array that matches
\* the key and value schemas of the map node
TuplesFit(node, v) ==
    \A i \in 1..Len(v.e) :
        /\ IsArray(v.e[i])
        /\ Len(v.e[i].e) = 2
        /\ Fits(Prop(node, "keys"), v.e[i].e[1])
        /\ Fits(Prop(node, "values"), v.e[i].e[2])

\* every key of the plain record v, as a string, and every value of it match
\* the key and value schemas of the map node
RecordFits(node, v) ==
    \A i \in 1..Len(v.kv) :
        /\ Fits(Prop(node, "keys"), Str(KeyText(v.kv[i][1])))
        /\ Fits(Prop(node, "values"), v.kv[i][2])

\* C11: for a map node, under the default config an array of [key, value]
\* entries matching the key/value schemas is accepted and a plain record is
\* rejected; under mapAccepts `object` or `both` a plain record is accepted
\* iff every key (as a string) and every value match the key/value schemas; a
\* value that is neither an array nor a plain record fails under every config.
C11_MapDuality ==
    (pc # "call" /\ MapCall) =>
        /\ pc = "returned"
        /\ (MapAccepts = Str(<<"array-tuples">>) /\ IsArray(call.value))
              => (result.ok <=> TuplesFit(call.schema, call.value))
        /\ (MapAccepts = Str(<<"array-tuples">>) /\ call.value.t = "object") => ~result.ok
        /\ (MapAccepts \in {Str(<<"object">>), Str(<<"both">>)} /\ call.value.t = "object")
              => (result.ok <=> RecordFits(call.schema, call.value))
        /\ (~IsArray(call.value) /\ call.value.t # "object") => ~result.ok

C11_Witness ==
    /\ pc = "returned"
    /\ call.schema = SMap(SBytes, SInteger)
    /\ call.value = Obj(<< <<"ab", Num(1)>> >>)
    /\ call.cfg = Obj(<< <<"mapAccepts", Str(<<"both">>)>>, <<"unitAccepts", Str(<<"both">>)>> >>)
    /\ result.ok

\* C12: mapAccepts selects one of three modes: `array-tuples` accepts the
\* array-of-2-tuples form only, `object` accepts the object form only (a
\* well-typed array of 2-tuples is rejected), `both` accepts either form.
C12_ThreeModes ==
    (pc # "call" /\ MapCall) =>
        /\ pc = "returned"
        /\ (IsArray(call.value) /\ TuplesFit(call.schema, call.value))
              => (result.ok <=> MapAccepts \in {Str(<<"array-tuples">>), Str(<<"both">>)})
        /\ (call.value.t = "object" /\ RecordFits(call.schema, call.value))
              => (result.ok <=> MapAccepts \in {Str(<<"object">>), Str(<<"both">>)})

\* the alternatives of the node of the call
CtorAlts == Prop(call.schema, "anyOf").e

\* the call is about a constructor-sum node: alternatives with an integer
\* index and primitive field schemas
CtorCall ==
    /\ IsArray(Prop(call.schema, "anyOf"))
    /\ \A k \in 1..Len(CtorAlts) :
          /\ Prop(CtorAlts[k], "index").t = "number"
          /\ IsArray(Prop(CtorAlts[k], "fields"))
          /\ \A i \in 1..Len(Prop(CtorAlts[k], "fields").e) :
                Prop(CtorAlts[k], "fields").e[i] \in PrimitiveNodes

\* the value of the call is a plain record with an integral number as its
\* `constructor` tag and an array as its `fields`
CtorShaped ==
    /\ call.value.t = "object"
    /\ HasKey(call.value, "constructor")
    /\ Get(call.value, "constructor").t = "number"
    /\ Get(call.value, "constructor").integral
    /\ HasKey(call.value, "fields")
    /\ IsArray(Get(call.value, "fields"))

CtorTag == Get(call.value, "constructor")

CtorFields == Get(call.value, "fields").e

\* the positions of the alternatives whose index is the tag of the value
TagMatches == { k \in 1..Len(CtorAlts) : Get(CtorAlts[k], "index") = CtorTag }

\* the fields of the value that fail the positional field schema of alternative k
FailingFields(k) ==
    { i \in 1..Len(CtorFields) : ~Fits(Get(CtorAlts[k], "fields").e[i], CtorFields[i]) }

\* the value has as many fields as alternative k has field schemas, and every
\* field passes its positional schema
FieldsFit(k) ==
    /\ Len(CtorFields) = Len(Get(CtorAlts[k], "fields").e)
    /\ FailingFields(k) = {}

\* C13 as stated: Ok iff the value is a record with an integer tag and an
\* array of fields, the tag is the index of exactly one alternative, and the
\* fields fit that alternative in number and positionally.
C13_Original ==
    (pc # "call" /\ CtorCall) =>
        /\ pc = "returned"
        /\ result.ok <=>
            /\ CtorShaped
            /\ Cardinality(TagMatches) = 1
            /\ \A k \in TagMatches : FieldsFit(k)

\* the first alternative, in the order of the node, whose index is the tag
FirstMatch == CHOOSE k \in TagMatches : \A j \in TagMatches : k <= j

\* C13 (amended): on a constructor-sum node the result is Ok iff the value is
\* a plain record with an integral number tag and an array of fields, the tag
\* is the index of at least one alternative, and the fields fit the first such
\* alternative in number and positionally; an unknown tag, an arity mismatch
\* and a failing field each yield Fail, the last naming the lowest failing
\* field index.
C13_ConstructorFirstMatch ==
    (pc # "call" /\ CtorCall) =>
        /\ pc = "returned"
        /\ result.ok <=> (CtorShaped /\ TagMatches # {} /\ FieldsFit(FirstMatch))
        /\ (CtorShaped /\ TagMatches = {}) =>
              result.message = <<"No constructor with index ", ToString(CtorTag.n)>>
        /\ (CtorShaped /\ TagMatches # {}
              /\ Len(CtorFields) # Len(Get(CtorAlts[FirstMatch], "fields").e)) =>
              /\ ~result.ok
              /\ result.message[1] = "Constructor "
        /\ (CtorShaped /\ TagMatches # {}
              /\ Len(CtorFields) = Len(Get(CtorAlts[FirstMatch], "fields").e)
              /\ FailingFields(FirstMatch) # {}) =>
              /\ ~result.ok
              /\ result.message[1] = "Field "
              /\ \E i \in FailingFields(FirstMatch) :
                    /\ \A j \in FailingFields(FirstMatch) : i <= j
                    /\ result.message[2] = ToString(i - 1)

\* a tag that two alternatives carry, with fields that fit the first of them
C13_Witness ==
    /\ pc = "returned"
    /\ call.schema = SCtorSameIndex
    /\ call.value = VCtor(Num(0), <<Num(1)>>)
    /\ result.ok

\* the call is about a list node (`list` or `#list`)
ListCall == Prop(call.schema, "dataType") \in {Str(<<"list">>), Str(<<"#", "list">>)}

ListItems == Prop(call.schema, "items")

\* the items of the list node are primitive schemas, given singly or as an array
PrimitiveItems ==
    IF IsArray(ListItems) THEN \A i \in 1..Len(ListItems.e) : ListItems.e[i] \in PrimitiveNodes
    ELSE ListItems \in PrimitiveNodes

\* C14: a list node whose items is an array of per-position schemas accepts a
\* value only if it is an array of exactly that many elements, each passing
\* the schema at its own position.
C14_TupleForm ==
    (pc # "call" /\ ListCall /\ IsArray(ListItems) /\ PrimitiveItems) =>
        /\ pc = "returned"
        /\ result.ok =>
            /\ IsArray(call.value)
            /\ Len(call.value.e) = Len(ListItems.e)
            /\ \A i \in 1..Len(ListItems.e) : Fits(ListItems.e[i], call.value.e[i])

\* element v passes the items of the list node: the single item schema, or at
\* least one of the alternatives
ItemFits(v) ==
    IF IsArray(ListItems) THEN \E k \in 1..Len(ListItems.e) : Fits(ListItems.e[k], v)
    ELSE Fits(ListItems, v)

CallTable == IF call.definitions = Undefined THEN Obj(<<>>) ELSE call.definitions

\* a reference node, and the key it names
IsReference(node) == node.t = "object" /\ HasKey(node, "$ref")

KeyOf(node) == Get(node, "$ref").s[2]

MissingKey == Str(<<"missing key">>)

\* no chain that ends is longer than the table has keys
ChainDepth == Len(CallTable.kv) + 1

\* the node a chain of at most n references ends at, MissingKey when a
\* reference on the chain names a key that the table does not hold
RECURSIVE Deref(_, _)
Deref(node, n) ==
    IF ~IsReference(node) \/ n = 0 THEN node
    ELSE IF HasKey(CallTable, KeyOf(node)) THEN Deref(Get(CallTable, KeyOf(node)), n - 1)
    ELSE MissingKey

\* C16: a reference whose chain reaches a non-reference node N gives the same
\* Ok/Fail as N for every value, also in list, map, pair and constructor
\* positions; a reference on the chain that names a key missing from the table
\* gives Fail with an unresolved-reference message.
C16_RefTransparent ==
    (pc # "call") =>
        /\ (IsReference(call.schema) /\ Deref(call.schema, ChainDepth) = MissingKey) =>
              /\ pc = "returned"
              /\ ~result.ok
              /\ result.message[1] = "Unresolved $ref: "
        /\ (IsReference(call.schema)
              /\ Deref(call.schema, ChainDepth) \in {SHashUnit, DataType(<<"#", "bytes">>)}) =>
              /\ pc = "returned"
              /\ result.ok <=> Fits(Deref(call.schema, ChainDepth), call.value)
        /\ (call.schema = SList(Ref("A")) /\ call.definitions = CheckDefinitions
              /\ IsArray(call.value)) =>
              (result.ok <=> \A i \in 1..Len(call.value.e) :
                                Fits(DataType(<<"#", "bytes">>), call.value.e[i]))
        /\ (call.schema = SMap(Ref("A"), Ref("B")) /\ call.definitions = CheckDefinitions
              /\ IsArray(call.value)) =>
              (result.ok <=> TuplesFit(SMap(SBytes, SBytes), call.value))
        /\ (call.schema = SAnyOf(<<SCtor(1, <<Ref("A")>>)>>)
              /\ call.definitions = CheckDefinitions) =>
              (result.ok <=> /\ CtorShaped
                             /\ CtorTag = Num(1)
                             /\ Len(CtorFields) = 1
                             /\ Fits(SBytes, CtorFields[1]))
        /\ (call.schema = SHashPair(Ref("A"), Ref("Dangling"))
              /\ call.definitions = CheckDefinitions
              /\ IsArray(call.value) /\ Len(call.value.e) = 2
              /\ Fits(SBytes, call.value.e[1])) =>
              /\ pc = "returned"
              /\ result = [ok |-> FALSE,
                           message |-> <<"right: ", "Unresolved $ref: ", RefPrefix, "Missing">>]

\* the definition key a reference segment stands for: `~1` written for `/`
DecodedKey(k) ==
    CASE k = "cardano~1assets~1PolicyId" -> "cardano/assets/PolicyId"
      [] OTHER -> k

\* C17: a reference `#/definitions/<k>` in which `/` is written `~1` resolves
\* to the definition stored under the decoded key: the call gives the result
\* of that definition (a bytes node for cardano/assets/PolicyId).
C17_RefSegmentDecoded ==
    (pc # "call" /\ IsReference(call.schema)
       /\ DecodedKey(KeyOf(call.schema)) # KeyOf(call.schema)
       /\ HasKey(CallTable, DecodedKey(KeyOf(call.schema)))) =>
        /\ pc = "returned"
        /\ Get(CallTable, DecodedKey(KeyOf(call.schema))) = SPolicyId =>
              (result.ok <=> Fits(SBytes, call.value))

\* C18: validateParameterValue is total: for every schema node, value, config
\* and definition table, a table whose references lead back to themselves
\* included, the call returns {ok: true} or {ok: false, message} and never
\* throws or recurses without end.
C18_Total ==
    (pc # "call") =>
        /\ pc = "returned"
        /\ \/ result = [ok |-> TRUE]
           \/ /\ DOMAIN result = {"ok", "message"}
              /\ ~result.ok
              /\ result.message # <<>>

\* the message a primitive node gives for a value it rejects
Expected(s) ==
    CASE s \in {SBytes, DataType(<<"#", "bytes">>)} -> <<"Expected hex string">>
      [] s \in {SInteger, DataType(<<"#", "integer">>)} -> <<"Expected integer">>
      [] s = DataType(<<"#", "string">>) -> <<"Expected string">>
      [] s = DataType(<<"#", "boolean">>) -> <<"Expected boolean">>
      [] s = SHashUnit -> <<"Expected unit (null or {})">>

\* the least member of a non-empty set of positions
Lowest(S) == CHOOSE i \in S : \A j \in S : i <= j

\* the elements of the array v that the list node of the call rejects
FailingElements(v) == { i \in 1..Len(v.e) : ~ItemFits(v.e[i]) }

\* the entries of the array v that the map node of the call rejects
FailingEntries(v) == { i \in 1..Len(v.e) : ~TuplesFit(call.schema, Arr(<<v.e[i]>>)) }

\* the one message for entry e, at position i, of a map value in array form:
\* its shape, then its key, then its value
EntryMessage(i, e) ==
    IF ~IsArray(e) \/ Len(e.e) # 2 THEN <<"Entry ", ToString(i - 1), ": expected [key, value]">>
    ELSE IF ~Fits(Prop(call.schema, "keys"), e.e[1])
    THEN <<"Entry ", ToString(i - 1), " key: ">> \o Expected(Prop(call.schema, "keys"))
    ELSE <<"Entry ", ToString(i - 1), " value: ">> \o Expected(Prop(call.schema, "values"))

\* the properties of the plain record v, in the order of Object.entries, that
\* the map node of the call rejects
FailingProperties(v) == { i \in 1..Len(v.kv) : ~RecordFits(call.schema, Obj(<<v.kv[i]>>)) }

\* the one message for the property kv of a map value in object form: its key,
\* then its value
PropertyMessage(kv) ==
    IF ~Fits(Prop(call.schema, "keys"), Str(KeyText(kv[1])))
    THEN <<"Map key: ">> \o Expected(Prop(call.schema, "keys"))
    ELSE <<"Map value for key \"", kv[1], "\": ">> \o Expected(Prop(call.schema, "values"))

\* the elements of the array v that are no array of integers
FailingInner(v) ==
    { i \in 1..Len(v.e) : ~IsArray(v.e[i])
                          \/ \E j \in 1..Len(v.e[i].e) : ~Fits(SInteger, v.e[i].e[j]) }

\* the one message of a list of integers for the element e it rejects
InnerMessage(e) ==
    IF ~IsArray(e) THEN <<"Expected array">>
    ELSE <<"Element ", ToString(Lowest({ j \in 1..Len(e.e) : ~Fits(SInteger, e.e[j]) }) - 1),
           ": ", "Expected integer">>

\* C19: a failing value yields one message that names the first failing
\* sub-part in positional order: the lowest failing element of a list, the
\* left side of a pair before the right, the key of a map entry before its
\* value, the lowest failing field of a constructor; a nested failure carries
\* the prefix of each enclosing sub-path.
C19_FirstFailureOnly ==
    (pc = "returned") =>
        /\ (ListCall /\ PrimitiveItems /\ IsArray(call.value)
              /\ FailingElements(call.value) # {}) =>
              result = [ok |-> FALSE,
                        message |->
                          <<"Element ", ToString(Lowest(FailingElements(call.value)) - 1)>>
                          \o IF IsArray(ListItems) THEN <<": no list alternative matched">>
                             ELSE <<": ">> \o Expected(ListItems)]
        /\ (Prop(call.schema, "dataType") = Str(<<"#", "pair">>)
              /\ Prop(call.schema, "left") \in PrimitiveNodes
              /\ Prop(call.schema, "right") \in PrimitiveNodes
              /\ IsArray(call.value) /\ Len(call.value.e) = 2) =>
              /\ ~Fits(Prop(call.schema, "left"), call.value.e[1]) =>
                    result = [ok |-> FALSE,
                              message |-> <<"left: ">> \o Expected(Prop(call.schema, "left"))]
              /\ (Fits(Prop(call.schema, "left"), call.value.e[1])
                    /\ ~Fits(Prop(call.schema, "right"), call.value.e[2])) =>
                    result = [ok |-> FALSE,
                              message |-> <<"right: ">> \o Expected(Prop(call.schema, "right"))]
        /\ (MapCall /\ IsArray(call.value) /\ FailingEntries(call.value) # {}) =>
              result = [ok |-> FALSE,
                        message |-> EntryMessage(Lowest(FailingEntries(call.value)),
                                                 call.value.e[Lowest(FailingEntries(call.value))])]
        /\ (MapCall /\ call.value.t = "object"
              /\ MapAccepts \in {Str(<<"object">>), Str(<<"both">>)}
              /\ FailingProperties(call.value) # {}) =>
              result = [ok |-> FALSE,
                        message |->
                          PropertyMessage(call.value.kv[Lowest(FailingProperties(call.value))])]
        /\ (CtorCall /\ CtorShaped /\ TagMatches # {}
              /\ Len(CtorFields) = Len(Get(CtorAlts[FirstMatch], "fields").e)
              /\ FailingFields(FirstMatch) # {}) =>
              result = [ok |-> FALSE,
                        message |->
                          <<"Field ", ToString(Lowest(FailingFields(FirstMatch)) - 1), ": ">>
                          \o Expected(Get(CtorAlts[FirstMatch], "fields").e[
                                         Lowest(FailingFields(FirstMatch))])]
        /\ (call.schema = SList(SList(SInteger)) /\ IsArray(call.value)
              /\ FailingInner(call.value) # {}) =>
              result = [ok |-> FALSE,
                        message |->
                          <<"Element ", ToString(Lowest(FailingInner(call.value)) - 1), ": ">>
                          \o InnerMessage(call.value.e[Lowest(FailingInner(call.value))])]

\* two failing elements inside the second inner list: only the first is named
C19_Witness ==
    /\ pc = "returned"
    /\ call.schema = SList(SList(SInteger))
    /\ call.value = Arr(<<Arr(<<Num(1)>>), Arr(<<Null, Null>>)>>)
    /\ result = [ok |-> FALSE,
                 message |-> <<"Element ", "1", ": ", "Element ", "0", ": ", "Expected integer">>]

\* v is an integral number or big integer, an even-length hexadecimal string,
\* an array, or a plain keyed record
GenericData(v) ==
    \/ v.t = "bigint"
    \/ v.t = "number" /\ v.integral
    \/ /\ v.t = "string"
       /\ Len(v.s) % 2 = 0
       /\ \A i \in 1..Len(v.s) : v.s[i] \in HexDigits
    \/ v.t = "array"
    \/ v.t = "object"

\* C20: the opaque node `{}` accepts exactly the integral numbers and big
\* integers, the even-length hexadecimal strings (the empty one included), the
\* arrays and the plain keyed records, and rejects every other value; the same
\* holds where it is the item schema of a list or the value schema of a map.
C20_OpaqueAccepts ==
    (pc # "call") =>
        /\ call.schema = Obj(<<>>) =>
              /\ pc = "returned"
              /\ result.ok <=> GenericData(call.value)
        /\ (call.schema = SList(Obj(<<>>)) /\ IsArray(call.value)) =>
              /\ pc = "returned"
              /\ result.ok <=> \A i \in 1..Len(call.value.e) : GenericData(call.value.e[i])
        /\ (call.schema = SMap(DataType(<<"#", "string">>), Obj(<<>>))
              /\ IsArray(call.value)) =>
              /\ pc = "returned"
              /\ result.ok <=> \A i \in 1..Len(call.value.e) :
                                  /\ IsArray(call.value.e[i])
                                  /\ Len(call.value.e[i].e) = 2
                                  /\ IsString(call.value.e[i].e[1])
                                  /\ GenericData(call.value.e[i].e[2])

\* a constructor-shaped record at the opaque node
C20_Witness ==
    /\ pc = "returned"
    /\ call.schema = Obj(<<>>)
    /\ call.value = VCtor(Num(1), <<>>)
    /\ result.ok

(***************************************************************************)
(* Further claims about the grouping pass                                  *)
(***************************************************************************)
SharedFields(r) ==
    [name |-> r.name, parameters |-> r.parameters,
     compiledCode |-> r.compiledCode, hash |-> r.hash]

\* what one iteration may change, given the entry it consumes
FrameOfEntry(v, before, after) ==
    LET sp == splitBaseAndPurpose(v.title) IN
    /\ DOMAIN before \subseteq DOMAIN after
    /\ DOMAIN after \subseteq DOMAIN before \cup {sp.base}
    /\ \A b \in DOMAIN before :
          /\ SharedFields(after[b]) = SharedFields(before[b])
          /\ b # sp.base => after[b] = before[b]
          /\ \A p \in DOMAIN before[b].purposes :
                p # sp.purpose =>
                    /\ p \in DOMAIN after[b].purposes
                    /\ after[b].purposes[p] = before[b].purposes[p]
    /\ (sp.isElse \/ sp.purpose = NoPurpose) => after = before

\* C26: one iteration of the grouping loop changes at most the purpose map of
\* the consumed entry's own base (whose record it creates on first sighting);
\* name, parameters, compiledCode and hash of every existing record and the
\* purpose maps of all other bases stay as they were, and an `else` entry or
\* an entry without a recognized purpose changes nothing.
C26_GroupingFrame ==
    [][(pc = "loop" /\ cursor <= Len(validated))
          => FrameOfEntry(validated[cursor], out, out')]_vars

\* a third entry of a known base, with other shared fields, has been grouped
\* next to a record of another base
C26_Witness ==
    /\ pc = "done"
    /\ Len(validated) = 3
    /\ Cardinality(DOMAIN out) = 2
    /\ LET b == splitBaseAndPurpose(validated[3].title).base IN
       /\ b \in DOMAIN out
       /\ Cardinality(DOMAIN out[b].purposes) = 2
       /\ out[b].compiledCode # validated[3].compiledCode

\* the entries of base b and purpose p, and the last of them in document order
SamePurpose(vs, b, p) == { i \in 1..Len(vs) : Contributes(vs, i, b, p) }

LastOf(S) == CHOOSE i \in S : \A j \in S : j <= i

\* the raw document whose validators carry the titles of vs
TitlesRoot(vs) ==
    Obj(<< <<"validators",
             Arr(Eager([i \in 1..Len(vs) |-> Obj(<< <<"title", Str(vs[i].title)>> >>)]))>> >>)

\* the shared fields in which entry v differs from entry ref
Differences(ref, v) ==
    (IF ref.compiledCode # v.compiledCode THEN <<"compiledCode">> ELSE <<>>)
    \o (IF ref.hash # v.hash THEN <<"hash">> ELSE <<>>)
    \o (IF extractParameters(ref.parameters) # extractParameters(v.parameters)
        THEN <<"parameters">> ELSE <<>>)

\* every entry of a base after the base's first, duplicates of a purpose included
LaterOfBase(vs, b) ==
    { i \in 1..Len(vs) :
        /\ \E p \in PURPOSES : Contributes(vs, i, b, p)
        /\ i # FirstOfBase(vs, b, Len(vs)) }

GuardErrorsOfBase(vs, b) ==
    SelectSeq(equalityGuards([validators |-> vs], TitlesRoot(vs)),
              LAMBDA e : SubSeq(e.message, 4, Len(e.message) - 1) = b)

\* C28: when several entries share base and purpose, the grouped purpose entry
\* carries the datum and redeemer of the last of them in document order (and
\* no datum or redeemer that only an earlier duplicate had), the shared fields
\* stay those of the base's first entry, and the equality guard compares every
\* entry of the base after the first, duplicates included, with that first entry.
C28_LastDuplicateWins ==
    pc = "done" =>
        \A b \in DOMAIN out :
            /\ \A p \in DOMAIN out[b].purposes :
                  LET last == validated[LastOf(SamePurpose(validated, b, p))]
                      entry == out[b].purposes[p]
                  IN  /\ (entry.datum = Undefined) <=> (last.datum = Undefined)
                      /\ (entry.redeemer = Undefined) <=> (last.redeemer = Undefined)
                      /\ entry.datum # Undefined =>
                            entry.datum.schema.raw = last.datum.schema
                      /\ entry.redeemer # Undefined =>
                            entry.redeemer.schema.raw = last.redeemer.schema
            /\ LET first == validated[FirstOfBase(validated, b, Len(validated))] IN
               /\ out[b].compiledCode = first.compiledCode
               /\ out[b].hash = first.hash
               /\ out[b].parameters = extractParameters(first.parameters)
               /\ Len(GuardErrorsOfBase(validated, b))
                     = Len(FlattenSeq(Eager([i \in 1..Len(validated) |->
                            IF i \in LaterOfBase(validated, b)
                            THEN Differences(first, validated[i]) ELSE <<>>])))

\* two entries of one base and purpose: the first has a datum, the last has not
C28_Witness ==
    /\ pc = "done"
    /\ \E b \in DOMAIN out : \E p \in DOMAIN out[b].purposes :
          LET S == SamePurpose(validated, b, p) IN
          /\ Cardinality(S) = 2
          /\ \A i \in S : i = LastOf(S) <=> validated[i].datum = Undefined
          /\ out[b].purposes[p].datum = Undefined
          /\ out[b].purposes[p].redeemer # Undefined
          /\ Len(GuardErrorsOfBase(validated, b)) = 3

(***************************************************************************)
(* Claims relating the structural check to the grouping pass               *)
(***************************************************************************)
\* the structural check held entry i (0-based idx) to the non-else rule
\* and found its compiledCode missing
CodeRequiredAt(res, idx) ==
    /\ ~res.ok
    /\ \E k \in 1..Len(res.issues) :
          /\ res.issues[k].path = <<Seg("validators"), Num(idx), Seg("compiledCode")>>
          /\ res.issues[k].message = <<"compiledCode is required (non-.else validator)">>

\* an entry that only the `else` rule accepts: a hash and no compiledCode
HashOnly(e) ==
    /\ IsObject(e)
    /\ IsString(Get(e, "title"))
    /\ Get(e, "compiledCode") = Undefined
    /\ IsString(Get(e, "hash"))
    /\ HEX56_RE(Get(e, "hash").s)

\* C27: the structural check and the grouping pass agree on which entries
\* are `else` entries: an entry with a hash and no compiledCode passes the
\* structural rule exactly when splitBaseAndPurpose, on which the grouping
\* pass and the equality guard decide, reports it as `else`.
C27_ElseAgreement ==
    (Returned /\ IsObject(Json)) =>
        LET es == RawValidators(Json) IN
        \A i \in 1..Len(es) :
            HashOnly(es[i]) =>
                (~CodeRequiredAt(result, i - 1)
                    <=> splitBaseAndPurpose(RawTitle(es[i])).isElse)

\* a node the structural check accepts as an opaque declaration: no keys
\* other than the annotations title and description, each a string
OpaqueDeclaration(s) ==
    /\ IsObject(s)
    /\ \A i \in 1..Len(s.kv) :
          /\ s.kv[i][1] \in {"title", "description"}
          /\ IsString(s.kv[i][2])

\* C29: every node that the structural check accepts as an opaque
\* declaration, the one that carries only title/description annotations
\* included, is treated as opaque by validateParameterValue: it accepts
\* exactly the values the bare node `{}` accepts.
C29_AnnotatedOpaque ==
    (pc # "call" /\ OpaqueDeclaration(call.schema)) =>
        /\ pc = "returned"
        /\ result.ok <=> GenericData(call.value)

(***************************************************************************)
(* The upload store (features/blueprint/state.ts) and the wizard steps     *)
(* (features/blueprint/steps.ts).  File names and texts are sequences of   *)
(* single characters.                                                      *)
(***************************************************************************)
UpperLetters ==
    <<"A", "B", "C", "D", "E", "F", "G", "H", "I", "J", "K", "L", "M",
      "N", "O", "P", "Q", "R", "S", "T", "U", "V", "W", "X", "Y", "Z">>

LowerLetters ==
    <<"a", "b", "c", "d", "e", "f", "g", "h", "i", "j", "k", "l", "m",
      "n", "o", "p", "q", "r", "s", "t", "u", "v", "w", "x", "y", "z">>

LowerChar(c) ==
    IF \E i \in 1..Len(UpperLetters) : UpperLetters[i] = c
    THEN LowerLetters[CHOOSE i \in 1..Len(UpperLetters) : UpperLetters[i] = c]
    ELSE c

\* String.prototype.toLowerCase
toLowerCase(s) == Eager([i \in 1..Len(s) |-> LowerChar(s[i])])

detectFileTypeCaseSensitive(name) ==
    IF EndsWith(name, <<".", "j", "s", "o", "n">>) THEN Str(<<"json">>)
    ELSE IF EndsWith(name, <<".", "t", "x", "t">>) THEN Str(<<"txt">>)
    ELSE Str(<<"unknown">>)

detectFileType(name) ==
    LET lower == toLowerCase(name) IN
    IF EndsWith(lower, <<".", "j", "s", "o", "n">>) THEN Str(<<"json">>)
    ELSE IF EndsWith(lower, <<".", "t", "x", "t">>) THEN Str(<<"txt">>)
    ELSE Str(<<"unknown">>)

\* the initial state of the store (its data fields)
InitialStore ==
    [fileName |-> Undefined, fileType |-> Str(<<"unknown">>), rawText |-> Undefined,
     walletNetwork |-> Undefined, chosenNetwork |-> Undefined]

\* set(partial): the state with the keys of partial replaced
SetState(state, partial) ==
    [k \in DOMAIN state |-> IF k \in DOMAIN partial THEN partial[k] ELSE state[k]]

\* the partial state that ingestFile sets once file.text() has resolved
Ingested(file) ==
    [fileName |-> Str(file.name),
     fileType |-> detectFileType(file.name),
     rawText |-> Str(file.text)]

\* the partial state that clearUpload sets
Cleared ==
    [fileName |-> Undefined, fileType |-> Str(<<"unknown">>), rawText |-> Undefined]

\* persist: the stored state is JSON, which has no undefined; on load it is
\* merged over the initial state
Persisted(state) == { k \in DOMAIN state : state[k] # Undefined }

Rehydrated(state) ==
    [k \in DOMAIN InitialStore |->
        IF k \in Persisted(state) THEN state[k] ELSE InitialStore[k]]

\* steps.ts
StepOrder == <<"upload", "parse", "params", "artifacts", "deploy", "save">>

HasIsHidden(step) == step \in {"params", "deploy"}

\* StepMeta[step].isHidden?.(): both declared hooks return false
isHidden(step) == IF HasIsHidden(step) THEN Bool(FALSE) ELSE Undefined

HasCanLeave(step) == step = "upload"

\* StepMeta.upload.canLeave, on the state getState() returns
canLeave(s) ==
    /\ Truthy(s.rawText)
    /\ (s.fileType = Str(<<"json">>) \/ s.fileType = Str(<<"txt">>))

IndexOf(step) == CHOOSE i \in 1..Len(StepOrder) : StepOrder[i] = step

isStepEnabled(target, s) ==
    LET visible == ~Truthy(IF isHidden(target) = Undefined THEN Bool(FALSE)
                           ELSE isHidden(target))
    IN  IF ~visible THEN FALSE
        ELSE \A i \in 1..(IndexOf(target) - 1) :
                \/ Truthy(isHidden(StepOrder[i]))
                \/ ~(HasCanLeave(StepOrder[i]) /\ ~canLeave(s))

(***************************************************************************)
(* Specification of the upload store: ingestFile calls start, their        *)
(* file.text() promises settle in any order, clearUpload calls and page    *)
(* loads fall in between.                                                  *)
(***************************************************************************)
MaxInFlight == 2

File(name, text) == [name |-> name, text |-> text]

UploadFiles ==
    { File(<<"a", ".", "j", "s", "o", "n">>, <<"{", "}">>),
      File(<<"B", ".", "T", "X", "T">>, <<"h", "i">>),
      File(<<"c", ".", "b", "i", "n">>, <<"x">>),
      File(<<"d", ".", "j", "s", "o", "n">>, <<>>),
      File(<<"j", "s", "o", "n">>, <<"j">>) }

Without(q, i) == SubSeq(q, 1, i - 1) \o SubSeq(q, i + 1, Len(q))

InitUpload ==
    /\ store = InitialStore
    /\ inflight = <<>>
    /\ pc = "idle"
    /\ validated = <<>>
    /\ cursor = 1
    /\ out = NoValidators
    /\ input = Undefined
    /\ result = Undefined
    /\ ran = {}
    /\ call = Undefined

\* ingestFile(file) up to its await
IngestFile ==
    /\ Len(inflight) < MaxInFlight
    /\ \E f \in UploadFiles : inflight' = Append(inflight, f)
    /\ UNCHANGED <<store, pc, validated, cursor, out, input, result, ran, call>>

\* file.text() resolved: the continuation of ingestFile calls set once
TextResolved ==
    /\ \E i \in 1..Len(inflight) :
          /\ store' = SetState(store, Ingested(inflight[i]))
          /\ inflight' = Without(inflight, i)
    /\ UNCHANGED <<pc, validated, cursor, out, input, result, ran, call>>

\* file.text() rejected: ingestFile rejects and sets nothing
TextRejected ==
    /\ \E i \in 1..Len(inflight) : inflight' = Without(inflight, i)
    /\ UNCHANGED <<store, pc, validated, cursor, out, input, result, ran, call>>

ClearUpload ==
    /\ store' = SetState(store, Cleared)
    /\ UNCHANGED <<inflight, pc, validated, cursor, out, input, result, ran, call>>

\* the page is loaded again: pending calls are gone, the persisted state is read
Reload ==
    /\ store' = Rehydrated(store)
    /\ inflight' = <<>>
    /\ UNCHANGED <<pc, validated, cursor, out, input, result, ran, call>>

NextUpload == IngestFile \/ TextResolved \/ TextRejected \/ ClearUpload \/ Reload

SpecUpload == InitUpload /\ [][NextUpload]_vars

(***************************************************************************)
(* Claims about the upload store                                           *)
(***************************************************************************)
\* the file type a name stands for: by its extension, in any letter case
ExtensionType(name) ==
    LET n == Len(name) IN
    IF n >= 5 /\ toLowerCase(SubSeq(name, n - 4, n)) = <<".", "j", "s", "o", "n">>
    THEN Str(<<"json">>)
    ELSE IF n >= 4 /\ toLowerCase(SubSeq(name, n - 3, n)) = <<".", "t", "x", "t">>
    THEN Str(<<"txt">>)
    ELSE Str(<<"unknown">>)

FromOneFile(s, f) ==
    /\ s.fileName = Str(f.name)
    /\ s.rawText = Str(f.text)
    /\ s.fileType = ExtensionType(f.name)

InClearedState(s) ==
    /\ s.fileName = Undefined
    /\ s.rawText = Undefined
    /\ s.fileType = Str(<<"unknown">>)

\* C30: under every interleaving of ingestFile and clearUpload calls,
\* fileName, fileType and rawText either all come from one ingested file
\* (fileType derived from its name) or are all in the cleared state; and a
\* step after upload is enabled, and upload may be left, only when rawText is
\* a non-empty text and fileType is json or txt.
C30_UploadConsistent ==
    /\ InClearedState(store) \/ \E f \in UploadFiles : FromOneFile(store, f)
    /\ \A target \in Range(StepOrder) :
          ((target # "upload" /\ isStepEnabled(target, store)) \/ canLeave(store)) =>
              /\ IsString(store.rawText)
              /\ Len(store.rawText.s) > 0
              /\ store.fileType \in {Str(<<"json">>), Str(<<"txt">>)}

\* a file is held while two other ingestFile calls are pending, and the
\* upload step may be left
C30_Witness ==
    /\ Len(inflight) = 2
    /\ \E f \in UploadFiles :
          /\ FromOneFile(store, f)
          /\ f.name = <<"B", ".", "T", "X", "T">>
          /\ \A i \in 1..2 : inflight[i] # f
    /\ canLeave(store)
    /\ isStepEnabled("save", store)

(***************************************************************************)
(* Parameter descriptors (lib/cip57/params.ts).  The raw form input and    *)
(* the texts derived from it are sequences of single characters.           *)
(***************************************************************************)
DecimalDigits == {"0", "1", "2", "3", "4", "5", "6", "7", "8", "9"}

WhiteSpace == {" ", "\n"}

ArabicThree == "arabic-indic digit three"
EAcute == "e-acute"

\* the code point of a character of the input alphabet
CodePoint(c) ==
    IF c \in DecimalDigits THEN 48 + HexVal(c)
    ELSE IF \E i \in 1..Len(UpperLetters) : UpperLetters[i] = c
    THEN 64 + (CHOOSE i \in 1..Len(UpperLetters) : UpperLetters[i] = c)
    ELSE IF \E i \in 1..Len(LowerLetters) : LowerLetters[i] = c
    THEN 96 + (CHOOSE i \in 1..Len(LowerLetters) : LowerLetters[i] = c)
    ELSE CASE c = "\n" -> 10 [] c = " " -> 32 [] c = "+" -> 43 [] c = "-" -> 45
           [] c = "." -> 46 [] c = EAcute -> 233 [] c = ArabicThree -> 1635

\* TextEncoder.encode of one character: one byte below U+0080, two below U+0800
Utf8Bytes(c) ==
    LET cp == CodePoint(c) IN
    IF cp < 128 THEN <<cp>>
    ELSE <<192 + (cp \div 64), 128 + (cp % 64)>>

LowerHexDigits ==
    <<"0", "1", "2", "3", "4", "5", "6", "7", "8", "9", "a", "b", "c", "d", "e", "f">>

\* b.toString(16).padStart(2, "0")
ByteToHex(b) == <<LowerHexDigits[(b \div 16) + 1], LowerHexDigits[(b % 16) + 1]>>

encodeUtf8ToHex(s) ==
    FlattenSeq(Eager([i \in 1..Len(s) |->
        FlattenSeq(Eager([k \in 1..Len(Utf8Bytes(s[i])) |-> ByteToHex(Utf8Bytes(s[i])[k])]))]))

StartsWith(s, prefix) == Len(s) >= Len(prefix) /\ SubSeq(s, 1, Len(prefix)) = prefix

\* raw.startsWith("0x") ? raw.slice(2) : raw
Strip0x(s) == IF StartsWith(s, <<"0", "x">>) THEN SubSeq(s, 3, Len(s)) ELSE s

hexEven(raw) ==
    LET s == Strip0x(raw) IN
    IF Len(s) % 2 = 0 THEN s ELSE <<"0">> \o s

\* s.length / 2: a half-integral number for an odd length
hexToByteLen(hex) ==
    LET s == Strip0x(hex) IN
    IF Len(s) % 2 = 0 THEN Num(Len(s) \div 2) ELSE Frac(Len(s) \div 2)

\* params.ts isHex: /^[0-9a-fA-F]*$/ on the text without its 0x prefix
paramsIsHex(s) == \A i \in 1..Len(Strip0x(s)) : Strip0x(s)[i] \in HexDigits

(***************************************************************************)
(* BigInt: sign and magnitude, the magnitude as decimal digits (most       *)
(* significant first, no leading zero; zero has no digits)                 *)
(***************************************************************************)
BigDigits(neg, mag) == [t |-> "bigint", neg |-> neg /\ mag # <<>>, mag |-> mag]

RECURSIVE StripZeros(_)
StripZeros(ds) == IF ds # <<>> /\ Head(ds) = 0 THEN StripZeros(Tail(ds)) ELSE ds

RECURSIVE NatDigits(_)
NatDigits(n) == IF n = 0 THEN <<>> ELSE NatDigits(n \div 10) \o <<n % 10>>

DigitValues(s) == Eager([i \in 1..Len(s) |-> HexVal(s[i])])

IsDecimal(s) == Len(s) >= 1 /\ \A i \in 1..Len(s) : s[i] \in DecimalDigits

\* /^-?\d+$/
INT_RE(raw) == IsDecimal(IF raw # <<>> /\ Head(raw) = "-" THEN Tail(raw) ELSE raw)

RECURSIVE TrimWhite(_)
TrimWhite(s) ==
    IF s # <<>> /\ Head(s) \in WhiteSpace THEN TrimWhite(Tail(s))
    ELSE IF s # <<>> /\ Last(s) \in WhiteSpace THEN TrimWhite(Front(s))
    ELSE s

RECURSIVE RadixValue(_, _, _)
RadixValue(s, radix, acc) ==
    IF s = <<>> THEN acc ELSE RadixValue(Tail(s), radix, acc * radix + HexVal(Head(s)))

Thrown(error) == [threw |-> TRUE, error |-> error, value |-> Undefined]

Returns(v) == [threw |-> FALSE, error |-> "none", value |-> v]

\* BigInt(text), StringToBigInt: surrounding white space is dropped, the empty
\* text is 0n, a decimal literal may carry a sign, a 0x literal may not
StringToBigIntLossy(s) ==
    LET t == TrimWhite(s)
        body == IF t # <<>> /\ Head(t) \in {"-", "+"} THEN Tail(t) ELSE t
        kept == IF Len(body) > 15
                THEN [i \in 1..Len(body) |-> IF i > 15 THEN "0" ELSE body[i]] ELSE body
    IN  IF t = <<>> THEN Returns(BigDigits(FALSE, <<>>))
        ELSE IF IsDecimal(body)
        THEN Returns(BigDigits(Head(t) = "-", StripZeros(DigitValues(kept))))
        ELSE Thrown("SyntaxError")

StringToBigInt(s) ==
    LET t == TrimWhite(s)
        body == IF t # <<>> /\ Head(t) \in {"-", "+"} THEN Tail(t) ELSE t
    IN  IF t = <<>> THEN Returns(BigDigits(FALSE, <<>>))
        ELSE IF IsDecimal(body)
        THEN Returns(BigDigits(Head(t) = "-", StripZeros(DigitValues(body))))
        ELSE IF /\ StartsWith(t, <<"0", "x">>) \/ StartsWith(t, <<"0", "X">>)
                /\ Len(t) > 2
                /\ \A i \in 3..Len(t) : t[i] \in HexDigits
        THEN Returns(BigDigits(FALSE, NatDigits(RadixValue(SubSeq(t, 3, Len(t)), 16, 0))))
        ELSE Thrown("SyntaxError")

\* BigInt(value) of a schema keyword
ToBigInt(x) ==
    CASE x.t = "number" ->
            IF x.integral
            THEN Returns(BigDigits(x.n < 0, NatDigits(IF x.n < 0 THEN -x.n ELSE x.n)))
            ELSE Thrown("RangeError")
      [] x.t = "string" -> StringToBigInt(x.s)
      [] x.t = "boolean" -> Returns(BigDigits(FALSE, IF x.b THEN <<1>> ELSE <<>>))
      [] x.t = "bigint" -> Returns(x)
      [] OTHER -> Thrown("TypeError")

MagLess(x, y) ==
    \/ Len(x) < Len(y)
    \/ /\ Len(x) = Len(y)
       /\ \E i \in 1..Len(x) : x[i] < y[i] /\ \A j \in 1..(i - 1) : x[j] = y[j]

\* a < b
BigLess(a, b) ==
    IF a.neg # b.neg THEN a.neg
    ELSE IF a.neg THEN MagLess(b.mag, a.mag)
    ELSE MagLess(a.mag, b.mag)

RECURSIVE MagValue(_, _)
MagValue(ds, acc) == IF ds = <<>> THEN acc ELSE MagValue(Tail(ds), acc * 10 + Head(ds))

RECURSIVE MagMod(_, _, _)
MagMod(ds, m, r) == IF ds = <<>> THEN r ELSE MagMod(Tail(ds), m, (r * 10 + Head(ds)) % m)

\* v % m, as far as the comparison with 0n goes; m = 0n throws RangeError.
\* The divisor is taken as a machine integer (at most eight digits).
BigRemIsZero(v, m) ==
    IF m.mag = <<>> THEN Thrown("RangeError")
    ELSE Returns(Bool(MagMod(v.mag, MagValue(m.mag, 0), 0) = 0))

\* `${bigint}`
BigText(v) ==
    IF v.mag = <<>> THEN <<"0">>
    ELSE (IF v.neg THEN <<"-">> ELSE <<>>)
            \o Eager([i \in 1..Len(v.mag) |-> LowerHexDigits[v.mag[i] + 1]])

(***************************************************************************)
(* buildParamDescriptors.  A descriptor is a record of all the fields a    *)
(* ParamDescriptor may carry (absent ones undefined); validate and coerce  *)
(* name the closure that the builder installed.                            *)
(***************************************************************************)
RECURSIVE JoinTokens(_)
JoinTokens(ts) == IF ts = <<>> THEN "" ELSE Head(ts) \o JoinTokens(Tail(ts))

RECURSIVE SplitSlash(_)
SplitSlash(s) ==
    IF s = <<>> THEN << <<>> >>
    ELSE LET r == SplitSlash(Tail(s)) IN
         IF Head(s) = "/" THEN << <<>> >> \o r
         ELSE << <<Head(s)>> \o r[1] >> \o Tail(r)

\* for (const p of path) cur = cur?.[p]
RECURSIVE WalkPath(_, _)
WalkPath(cur, path) ==
    IF path = <<>> THEN cur
    ELSE WalkPath(Prop(cur, JoinTokens(Head(path))), Tail(path))

\* params.ts resolveRef: ref.replace(/^#\//, "").split("/"), walked from
\* { definitions: defs }
paramsResolveRef(ref, defs) ==
    WalkPath(Obj(<< <<"definitions", defs>> >>),
             SplitSlash(IF ref # <<>> /\ Head(ref) = "#/" THEN Tail(ref) ELSE ref))

PlainTypes == {"integer", "bytes", "list", "map", "constructor"}

\* dataType is a string wherever it is present
classifyDataType(schema) ==
    LET dt == Prop(schema, "dataType") IN
    IF ~Truthy(dt) THEN "unknown"
    ELSE IF Len(dt.s) = 1 /\ dt.s[1] \in PlainTypes THEN dt.s[1]
    ELSE IF Head(dt.s) = "#" THEN "builtin"
    ELSE "unknown"

Includes(s, sub) ==
    \E i \in 1..(Len(s) - Len(sub) + 1) : SubSeq(s, i, i + Len(sub) - 1) = sub

PolicyIdBytes == 28
AssetNameMaxBytes == 32

PolicyIdPath == <<"cardano", "~1", "assets", "~1", "PolicyId">>
AssetNamePath == <<"cardano", "~1", "assets", "~1", "AssetName">>

NoSemantics == [k \in {} |-> Undefined]

detectSemantics(arg, resolved) ==
    LET refName == Prop(Prop(arg, "schema"), "$ref")
        title == Prop(resolved, "title")
    IN  IF (IsString(refName) /\ Includes(refName.s, PolicyIdPath))
            \/ title = Str(<<"PolicyId">>)
        THEN [semantics |-> Str(<<"PolicyId">>),
              minBytes |-> Num(PolicyIdBytes), maxBytes |-> Num(PolicyIdBytes)]
        ELSE IF (IsString(refName) /\ Includes(refName.s, AssetNamePath))
                \/ title = Str(<<"AssetName">>)
        THEN [semantics |-> Str(<<"AssetName">>), maxBytes |-> Num(AssetNameMaxBytes)]
        ELSE NoSemantics

\* deref: follows $ref until a node without a truthy $ref; a chain that
\* returns to a reference already followed never ends (RangeError)
RECURSIVE deref(_, _, _)
deref(schema, defs, seen) ==
    LET ref == Prop(schema, "$ref") IN
    IF ~Truthy(ref) THEN Returns(schema)
    ELSE IF ~IsString(ref) THEN Thrown("TypeError")
    ELSE IF ref \in seen THEN Thrown("RangeError")
    ELSE deref(paramsResolveRef(ref.s, defs), defs, seen \cup {ref})

DescriptorFields ==
    {"name", "type", "title", "description", "semantics", "minBytes", "maxBytes",
     "minimum", "maximum", "exclusiveMaximum", "multipleOf", "maxItems",
     "oneOfChoices", "items", "keys", "values", "fields", "validate", "coerce"}

\* { name, type, ..., validate: () => null, coerce: (x) => x }
Descriptor(given) ==
    [k \in DescriptorFields |->
        IF k \in DOMAIN given THEN given[k]
        ELSE IF k \in {"validate", "coerce"} THEN "default"
        ELSE Undefined]

\* Object.assign(target, source)
ObjectAssign(target, source) ==
    [k \in DOMAIN target |-> IF k \in DOMAIN source THEN source[k] ELSE target[k]]

\* a ?? b
Coalesce(a, b) == IF a \in {Undefined, Null} THEN b ELSE a

\* the bytes branch: bounds from the semantics, else from minLength/maxLength
BytesDescriptor(base, schema) ==
    LET minBytes == Coalesce(base.minBytes, Prop(schema, "minLength"))
        maxBytes == Coalesce(base.maxBytes, Prop(schema, "maxLength"))
    IN  [base EXCEPT !.minBytes = IF minBytes.t = "number" THEN minBytes ELSE @,
                     !.maxBytes = IF maxBytes.t = "number" THEN maxBytes ELSE @,
                     !.validate = "bytes", !.coerce = "bytes"]

\* BigInt(schema[k]) for a keyword that is present
KeywordBigInt(schema, k) ==
    IF Prop(schema, k) # Undefined THEN ToBigInt(Prop(schema, k)) ELSE Returns(Undefined)

IntegerKeywords == <<"minimum", "maximum", "exclusiveMaximum", "multipleOf">>

\* the integer branch; a keyword that BigInt() rejects makes the build throw
IntegerDescriptor(base, schema) ==
    LET bad == { i \in 1..Len(IntegerKeywords) : KeywordBigInt(schema, IntegerKeywords[i]).threw }
    IN  IF bad # {}
        THEN KeywordBigInt(schema, IntegerKeywords[CHOOSE i \in bad : \A j \in bad : i <= j])
        ELSE Returns([base EXCEPT
                !.minimum = KeywordBigInt(schema, "minimum").value,
                !.maximum = KeywordBigInt(schema, "maximum").value,
                !.exclusiveMaximum = KeywordBigInt(schema, "exclusiveMaximum").value,
                !.multipleOf = KeywordBigInt(schema, "multipleOf").value,
                !.validate = "integer", !.coerce = "integer"])

\* the descriptors of a sequence of results, or the first exception among them
AllBuilt(rs) ==
    LET bad == { i \in 1..Len(rs) : rs[i].threw } IN
    IF bad # {} THEN rs[CHOOSE i \in bad : \A j \in bad : i <= j]
    ELSE Returns(Eager([i \in 1..Len(rs) |-> rs[i].value]))

IndexText(i) == ToString(i)

RECURSIVE buildFromSchema(_, _, _, _)
\* buildFromSchema(name, deref(s, defs), defs, argForSemantics)
BuildChild(name, s, defs, arg) ==
    With(deref(s, defs, {}),
         LAMBDA r : IF r.threw THEN r ELSE buildFromSchema(name, r.value, defs, arg))

BuildChildren(name, ss, defs, arg, Suffix(_)) ==
    AllBuilt(Eager([i \in 1..Len(ss) |-> BuildChild(name \o Suffix(i), ss[i], defs, arg)]))

\* the maxItems a list or map descriptor takes over
MaxItemsOf(schema) ==
    IF Prop(schema, "maxItems").t = "number" THEN Prop(schema, "maxItems") ELSE Undefined

OneOfDescriptor(name, schema, defs, arg) ==
    With(BuildChildren(name, Prop(schema, "oneOf").e, defs, arg,
                       LAMBDA i : <<" (option ", IndexText(i), ")">>),
         LAMBDA cs : IF cs.threw THEN cs
                     ELSE Returns(Descriptor([name |-> name, type |-> "unknown",
                                              oneOfChoices |-> cs.value])))

ListDescriptor(name, base, schema, defs, arg) ==
    LET items == Prop(schema, "items")
        desc == [base EXCEPT !.type = "list", !.maxItems = MaxItemsOf(schema)]
    IN  IF IsArray(items)
        THEN With(BuildChildren(name, items.e, defs, arg,
                                LAMBDA i : <<"[", IndexText(i - 1), "]">>),
                  LAMBDA cs : IF cs.threw THEN cs
                              ELSE Returns([desc EXCEPT !.items = cs.value]))
        ELSE IF Truthy(items)
        THEN With(BuildChild(name \o <<"[]">>, items, defs, arg),
                  LAMBDA c : IF c.threw THEN c
                             ELSE Returns([desc EXCEPT !.items = c.value]))
        ELSE Returns(desc)

MapChild(name, suffix, s, defs, arg) ==
    IF Truthy(s) THEN BuildChild(name \o <<suffix>>, s, defs, arg) ELSE Returns(Undefined)

MapDescriptor(name, base, schema, defs, arg) ==
    With(<<MapChild(name, "{key}", Prop(schema, "keys"), defs, arg),
           MapChild(name, "{value}", Prop(schema, "values"), defs, arg)>>,
         LAMBDA kv : IF kv[1].threw THEN kv[1]
                     ELSE IF kv[2].threw THEN kv[2]
                     ELSE Returns([base EXCEPT !.type = "map",
                                               !.keys = kv[1].value,
                                               !.values = kv[2].value,
                                               !.maxItems = MaxItemsOf(schema)]))

ConstructorDescriptor(name, base, schema, defs, arg) ==
    IF IsArray(Prop(schema, "fields"))
    THEN With(BuildChildren(name, Prop(schema, "fields").e, defs, arg,
                            LAMBDA i : <<".field", IndexText(i - 1)>>),
              LAMBDA cs : IF cs.threw THEN cs
                          ELSE Returns([base EXCEPT !.fields = cs.value]))
    ELSE Returns(base)

\* '#string' and '#boolean'; every other builtin keeps the defaults
BuiltinDescriptor(base, schema) ==
    IF Prop(schema, "dataType") = Str(<<"#", "string">>)
    THEN [base EXCEPT !.validate = "string", !.coerce = "string"]
    ELSE IF Prop(schema, "dataType") = Str(<<"#", "boolean">>)
    THEN [base EXCEPT !.validate = "boolean", !.coerce = "boolean"]
    ELSE base

TypedDescriptor(name, t, base, schema, defs, arg) ==
    IF t = "bytes" \/ (t = "builtin" /\ Prop(schema, "dataType") = Str(<<"#", "bytes">>))
    THEN Returns(BytesDescriptor(base, schema))
    ELSE IF t = "integer"
            \/ (t = "builtin" /\ Prop(schema, "dataType") = Str(<<"#", "integer">>))
    THEN IntegerDescriptor(base, schema)
    ELSE IF t = "list" \/ (t = "builtin" /\ Prop(schema, "dataType") = Str(<<"#", "list">>))
    THEN ListDescriptor(name, base, schema, defs, arg)
    ELSE IF t = "map" THEN MapDescriptor(name, base, schema, defs, arg)
    ELSE IF t = "constructor" THEN ConstructorDescriptor(name, base, schema, defs, arg)
    ELSE IF t = "builtin" THEN Returns(BuiltinDescriptor(base, schema))
    ELSE Returns(base)

buildFromSchema(name, schema, defs, argForSemantics) ==
    IF IsArray(Prop(schema, "oneOf")) /\ Len(Prop(schema, "oneOf").e) > 0
    THEN OneOfDescriptor(name, schema, defs, argForSemantics)
    ELSE TypedDescriptor(name, classifyDataType(schema),
            ObjectAssign(Descriptor([name |-> name, type |-> classifyDataType(schema),
                                     title |-> Prop(schema, "title"),
                                     description |-> Prop(schema, "description")]),
                         detectSemantics(Coalesce(argForSemantics, Obj(<<>>)), schema)),
            schema, defs, argForSemantics)

\* "oneOf" in arg ? arg.oneOf : [arg]
flattenArg(arg) ==
    IF ~Truthy(arg) THEN <<>>
    ELSE IF HasKey(arg, "oneOf") THEN Prop(arg, "oneOf").e
    ELSE <<arg>>

\* the body of the loop of buildParamDescriptors for one parameter
DescribeParameter(paramChoice, definitions) ==
    LET candidates == flattenArg(paramChoice)
        first == IF candidates = <<>> THEN Undefined ELSE candidates[1]
        name == IF Truthy(Prop(first, "title")) THEN Prop(first, "title").s ELSE <<"param">>
    IN  With(deref(Prop(first, "schema"), definitions, {}),
             LAMBDA d :
                IF d.threw THEN d
                ELSE With(buildFromSchema(name, d.value, definitions, first),
                          LAMBDA b :
                            IF b.threw THEN b
                            ELSE Returns(ObjectAssign(b.value,
                                    detectSemantics(Coalesce(first, Obj(<<>>)), d.value)))))

buildParamDescriptors(validator, definitions) ==
    LET parameters == Prop(validator, "parameters") IN
    IF ~IsArray(parameters) \/ Len(parameters.e) = 0 THEN Returns(<<>>)
    ELSE AllBuilt(Eager([i \in 1..Len(parameters.e) |->
                    DescribeParameter(parameters.e[i], definitions)]))

(***************************************************************************)
(* The validate and coerce closures of a descriptor                        *)
(***************************************************************************)
\* the characters U+2265 and U+2264 of the messages
GreaterEqualSign == "U+2265"
LessEqualSign == "U+2264"

\* a < b on numbers (Frac(n) stands for n + 1/2)
NumLess(a, b) ==
    (2 * a.n + (IF a.integral THEN 0 ELSE 1)) < (2 * b.n + (IF b.integral THEN 0 ELSE 1))

\* `${number}`
NumText(x) == IF x.integral THEN <<ToString(x.n)>> ELSE <<ToString(x.n), ".5">>

BytesValidate(d, raw) ==
    LET hex == IF paramsIsHex(raw) THEN hexEven(raw) ELSE encodeUtf8ToHex(raw) IN
    IF ~paramsIsHex(hex) THEN Str(<<"Invalid hex">>)
    ELSE IF Len(hex) % 2 # 0 THEN Str(<<"Hex length must be even">>)
    ELSE IF d.minBytes # Undefined /\ NumLess(hexToByteLen(hex), d.minBytes)
    THEN Str(<<"Too short: need ", GreaterEqualSign, " ">> \o NumText(d.minBytes) \o <<" bytes">>)
    ELSE IF d.maxBytes # Undefined /\ NumLess(d.maxBytes, hexToByteLen(hex))
    THEN Str(<<"Too long: max ">> \o NumText(d.maxBytes) \o <<" bytes">>)
    ELSE Null

\* raw.replace(/^0x/, "").toLowerCase(), or the hex of the UTF-8 bytes
BytesCoerce(raw) ==
    IF paramsIsHex(raw) THEN Str(toLowerCase(Strip0x(raw)))
    ELSE Str(toLowerCase(encodeUtf8ToHex(raw)))

IntegerValidate(d, raw) ==
    IF ~INT_RE(raw) THEN Str(<<"Expected an integer">>)
    ELSE LET v == StringToBigInt(raw).value IN
         IF d.minimum # Undefined /\ BigLess(v, d.minimum)
         THEN Str(<<"Must be ", GreaterEqualSign, " ">> \o BigText(d.minimum))
         ELSE IF d.maximum # Undefined /\ BigLess(d.maximum, v)
         THEN Str(<<"Must be ", LessEqualSign, " ">> \o BigText(d.maximum))
         ELSE IF d.exclusiveMaximum # Undefined /\ ~BigLess(v, d.exclusiveMaximum)
         THEN Str(<<"Must be < ">> \o BigText(d.exclusiveMaximum))
         ELSE IF d.multipleOf # Undefined
         THEN IF BigRemIsZero(v, d.multipleOf).threw THEN Str(<<"Integer out of range">>)
              ELSE IF ~BigRemIsZero(v, d.multipleOf).value.b
              THEN Str(<<"Must be a multiple of ">> \o BigText(d.multipleOf))
              ELSE Null
         ELSE Null

\* /^(true|false)$/i
BooleanValidate(raw) ==
    IF toLowerCase(raw) \in {<<"t", "r", "u", "e">>, <<"f", "a", "l", "s", "e">>}
    THEN Null ELSE Str(<<"Expected true/false">>)

\* desc.validate(raw): null or the error text
validate(d, raw) ==
    CASE d.validate = "bytes" -> BytesValidate(d, raw)
      [] d.validate = "integer" -> IntegerValidate(d, raw)
      [] d.validate = "boolean" -> BooleanValidate(raw)
      [] OTHER -> Null

\* desc.coerce(raw): the value returned, or the exception
coerce(d, raw) ==
    CASE d.coerce = "bytes" -> Returns(BytesCoerce(raw))
      [] d.coerce = "integer" -> StringToBigInt(raw)
      [] d.coerce = "boolean" -> Returns(Bool(toLowerCase(raw) = <<"t", "r", "u", "e">>))
      [] OTHER -> Returns(Str(raw))

(***************************************************************************)
(* Inputs of buildParamDescriptors: one parameter, the definitions table   *)
(* and the raw text handed to validate and coerce of its descriptor        *)
(***************************************************************************)
Rep(c, n) == Eager([i \in 1..n |-> c])

RefTo(path) == Obj(<< <<"$ref", Str(<<"#/", "definitions", "/">> \o path)>> >>)

Arg(title, schema) == Obj(<< <<"title", Str(<<title>>)>>, <<"schema", schema>> >>)

SBytesBetween(lo, hi) ==
    Obj(<< <<"dataType", Str(<<"bytes">>)>>, <<"minLength", lo>>, <<"maxLength", hi>> >>)

STitledBytes(title) ==
    Obj(<< <<"title", Str(<<title>>)>>, <<"dataType", Str(<<"bytes">>)>> >>)

SIntegerWith(kv) == Obj(<< <<"dataType", Str(<<"integer">>)>> >> \o kv)

TwoTo53 == <<"9", "0", "0", "7", "1", "9", "9", "2", "5", "4", "7", "4", "0", "9", "9">>

\* the definitions: a titled PolicyId, a key that spells the escaped path, the
\* flat keys that Aiken writes, a nested table, and a reference cycle
DescribeDefinitions ==
    Obj(<< <<"Pid", STitledBytes("PolicyId")>>,
           <<"cardano~1assets~1PolicyId", SBytes>>,
           <<"cardano/assets/AssetName", STitledBytes("AssetName")>>,
           <<"cardano", Obj(<< <<"assets",
                Obj(<< <<"PolicyId", STitledBytes("PolicyId")>> >>)>> >>)>>,
           <<"Int", SIntegerWith(<< <<"maximum", Num(100)>> >>)>>,
           <<"Loop", RefTo(<<"Loop">>)>> >>)

BytesParams ==
    { Arg("blob", SBytes),
      Arg("blob", SBytesBetween(Num(2), Num(4))),
      Arg("blob", SBytesBetween(Str(<<"2">>), Str(<<"4">>))),
      Arg("blob", Obj(<< <<"dataType", Str(<<"#", "bytes">>)>> >>)),
      Arg("policy", RefTo(<<"Pid">>)),
      Arg("policy", RefTo(PolicyIdPath)),
      Arg("policy", RefTo(<<"cardano", "/", "assets", "/", "PolicyId">>)),
      Arg("policy", Obj(STitledBytes("PolicyId").kv
                        \o << <<"minLength", Num(1)>>, <<"maxLength", Num(64)>> >>)),
      Arg("asset", STitledBytes("AssetName")),
      Arg("asset", RefTo(<<"cardano", "/", "assets", "/", "AssetName">>)),
      Arg("asset", RefTo(AssetNamePath)),
      Obj(<< <<"oneOf", Arr(<<Arg("first", SBytes), Arg("second", SInteger)>>)>> >>),
      Arg("choice", Obj(<< <<"oneOf", Arr(<<SBytes, RefTo(<<"Int">>)>>)>> >>)),
      Arg("flag", Obj(<< <<"dataType", Str(<<"#", "boolean">>)>> >>)),
      Arg("text", Obj(<< <<"dataType", Str(<<"#", "string">>)>> >>)),
      Arg("loop", RefTo(<<"Loop">>)),
      Obj(<< <<"schema", SBytes>> >>) }

ContainerParams ==
    { Arg("xs", Obj(<< <<"dataType", Str(<<"list">>)>>, <<"items", SBytes>>,
                       <<"maxItems", Num(2)>> >>)),
      Arg("xs", Obj(<< <<"dataType", Str(<<"#", "list">>)>>,
                       <<"items", Arr(<<SInteger, RefTo(<<"Pid">>)>>)>> >>)),
      Arg("m", Obj(<< <<"dataType", Str(<<"map">>)>>, <<"keys", SBytes>>,
                      <<"values", RefTo(<<"Int">>)>> >>)),
      Arg("c", Obj(<< <<"dataType", Str(<<"constructor">>)>>, <<"index", Num(0)>>,
                      <<"fields", Arr(<<SInteger, RefTo(<<"Loop">>)>>)>> >>)),
      Arg("c", Obj(<< <<"dataType", Str(<<"constructor">>)>>, <<"index", Num(0)>>,
                      <<"fields", Arr(<<SBytes>>)>> >>)) }

BytesTexts ==
    { <<>>,
      <<"0", "x">>,
      <<"f">>,
      <<"f", "f", "f">>,
      <<"a", "a">>,
      <<"a", "a", "b", "b">>,
      <<"a", "a", "b", "b", "c", "c", "d", "d">>,
      <<"a", "a", "b", "b", "c", "c", "d", "d", "e", "e", "f", "f">>,
      <<"z", "z">>,
      <<"D", "O", "G">>,
      <<"0", "x", "B", "B", "B", "B">>,
      <<"0", "X", "1", "2">>,
      <<EAcute>>,
      <<"0", "x", "f", "f", "f">> }
    \cup { Rep("a", n) : n \in {54, 55, 56, 57, 58, 63, 64, 65, 66} }
    \cup { <<"0", "x">> \o Rep("B", n) : n \in {55, 56} }
    \cup { Rep("z", n) : n \in {27, 28, 29} }

IntegerParams ==
    { Arg("n", SInteger),
      Arg("n", SIntegerWith(<< <<"minimum", Str(<<"-", "5">>)>>,
                               <<"maximum", Str(<<"1", "0", "0">>)>>,
                               <<"exclusiveMaximum", Str(<<"1", "0", "1">>)>>,
                               <<"multipleOf", Str(<<"5">>)>> >>)),
      Arg("n", SIntegerWith(<< <<"minimum", Num(-5)>>, <<"maximum", Num(100)>>,
                               <<"multipleOf", Num(5)>> >>)),
      Arg("n", SIntegerWith(<< <<"exclusiveMaximum", Num(101)>> >>)),
      Arg("n", SIntegerWith(<< <<"minimum", Str(<<"-">> \o TwoTo53 \o <<"3">>)>>,
                               <<"maximum", Str(TwoTo53 \o <<"3">>)>> >>)),
      Arg("n", SIntegerWith(<< <<"exclusiveMaximum", Str(TwoTo53 \o <<"3">>)>>,
                               <<"multipleOf", Num(3)>> >>)),
      Arg("n", SIntegerWith(<< <<"exclusiveMinimum", Num(5)>> >>)),
      Arg("n", Obj(<< <<"dataType", Str(<<"#", "integer">>)>>, <<"multipleOf", Num(4)>> >>)),
      Arg("n", RefTo(<<"Int">>)) }

IntegerTexts ==
    { <<>>,
      <<"-">>,
      <<"0">>,
      <<"-", "0">>,
      <<"0", "0", "7">>,
      <<"7">>,
      <<"1", "0">>,
      <<"1", "2">>,
      <<"-", "5">>,
      <<"-", "6">>,
      <<"-", "1", "0">>,
      <<"1", "0", "0">>,
      <<"1", "0", "1">>,
      <<"1", "0", "2", "5">>,
      <<"+", "5">>,
      <<"1", ".", "5">>,
      <<"a", "b", "c">>,
      <<" ", "1", "2">>,
      <<"1", "2", "\n">>,
      <<ArabicThree>>,
      <<"0", "x", "1", "0">>,
      <<"9", "0", "0", "7", "1", "9", "9", "2", "5", "4", "7", "4", "0", "9", "9", "2">>,
      <<"9", "0", "0", "7", "1", "9", "9", "2", "5", "4", "7", "4", "0", "9", "9", "3">>,
      <<"9", "0", "0", "7", "1", "9", "9", "2", "5", "4", "7", "4", "0", "9", "9", "5">>,
      <<"-", "9", "0", "0", "7", "1", "9", "9", "2", "5", "4", "7", "4", "0", "9", "9", "3">>,
      <<"-", "9", "0", "0", "7", "1", "9", "9", "2", "5", "4", "7", "4", "0", "9", "9", "5">>,
      <<"1", "2", "3", "4", "5", "6", "7", "8", "9", "0", "1", "2", "3", "4", "5", "6", "7", "8", "9", "0", "1", "2", "3", "4", "5", "6", "7", "8", "9", "0">> }

DescribeCall(param, raw) ==
    [validator |-> Obj(<< <<"parameters", Arr(<<param>>)>> >>),
     definitions |-> DescribeDefinitions, raw |-> raw]

DescribeCalls ==
    { DescribeCall(p, raw) : p \in BytesParams, raw \in BytesTexts }
    \cup { DescribeCall(p, raw) : p \in IntegerParams, raw \in IntegerTexts }
    \cup { DescribeCall(p, <<"a", "a">>) : p \in ContainerParams }
    \cup { [validator |-> Obj(<<>>), definitions |-> Undefined, raw |-> <<>>] }

(***************************************************************************)
(* Specification of buildParamDescriptors followed by validate and coerce  *)
(* of the first descriptor                                                 *)
(***************************************************************************)
InitDescribe ==
    /\ call \in DescribeCalls
    /\ pc = "call"
    /\ result = Undefined
    /\ input = Undefined
    /\ ran = {}
    /\ validated = <<>>
    /\ cursor = 1
    /\ out = NoValidators
    /\ store = Undefined
    /\ inflight = Undefined

\* the first descriptor, when the build returned one
FirstDescriptor(built) ==
    IF ~built.threw /\ built.value # <<>> THEN built.value[1] ELSE Undefined

Describe ==
    /\ pc = "call"
    /\ LET built == buildParamDescriptors(call.validator,
                        Coalesce(call.definitions, Obj(<<>>)))
           d == FirstDescriptor(built)
       IN  result' = [built |-> built,
                      error |-> IF d = Undefined THEN Undefined ELSE validate(d, call.raw),
                      coerced |-> IF d = Undefined THEN Undefined ELSE coerce(d, call.raw)]
    /\ pc' = "returned"
    /\ UNCHANGED <<call, input, ran, validated, cursor, out, store, inflight>>

NextDescribe == Describe

SpecDescribe == InitDescribe /\ [][NextDescribe]_vars

(***************************************************************************)
(* Claims about the parameter descriptors                                  *)
(***************************************************************************)
Described == pc = "returned" /\ FirstDescriptor(result.built) # Undefined

\* the descriptor under test
TheDescriptor == FirstDescriptor(result.built)

\* hexadecimal input: hex digits only, after an optional 0x
HexInput(raw) ==
    LET digits == IF Len(raw) >= 2 /\ raw[1] = "0" /\ raw[2] = "x"
                  THEN SubSeq(raw, 3, Len(raw)) ELSE raw
    IN  \A i \in 1..Len(digits) : digits[i] \in HexDigits

HexDigitCount(raw) ==
    IF Len(raw) >= 2 /\ raw[1] = "0" /\ raw[2] = "x" THEN Len(raw) - 2 ELSE Len(raw)

LowerHex(s) == \A i \in 1..Len(s) : s[i] \in Range(LowerHexDigits)

\* 2 * bound <= digits, for a byte bound that is set
WithinBytes(d, digits) ==
    /\ d.minBytes # Undefined => 2 * d.minBytes.n <= digits
    /\ d.maxBytes # Undefined => digits <= 2 * d.maxBytes.n

\* C21: for a bytes descriptor and every text that validate passes, coerce
\* returns a lowercase hexadecimal string of even length without 0x prefix
\* whose byte length lies within minBytes/maxBytes: hexadecimal input comes
\* back lower-cased without its prefix, other text as the hex of its UTF-8
\* bytes; a hexadecimal input with an odd number of digits does not pass.
C21_BytesCoerce ==
    (Described /\ TheDescriptor.type = "bytes") =>
        /\ result.error = Null =>
              /\ ~result.coerced.threw
              /\ IsString(result.coerced.value)
              /\ LowerHex(result.coerced.value.s)
              /\ Len(result.coerced.value.s) % 2 = 0
              /\ WithinBytes(TheDescriptor, Len(result.coerced.value.s))
              /\ IF HexInput(call.raw)
                 THEN Len(result.coerced.value.s) = HexDigitCount(call.raw)
                 ELSE result.coerced.value.s = encodeUtf8ToHex(call.raw)
        /\ (HexInput(call.raw) /\ HexDigitCount(call.raw) % 2 = 1) => result.error # Null

\* C22: a bytes descriptor recognized as PolicyId carries minBytes = maxBytes
\* = 28 whatever length keywords the schema has, and passes a hexadecimal
\* input only when it has exactly 56 digits; one recognized as AssetName
\* carries maxBytes = 32 and passes hexadecimal input of at most 64 digits.
C22_FixedLengthIdentifiers ==
    (Described /\ TheDescriptor.type = "bytes") =>
        /\ TheDescriptor.semantics = Str(<<"PolicyId">>) =>
              /\ TheDescriptor.minBytes = Num(PolicyIdBytes)
              /\ TheDescriptor.maxBytes = Num(PolicyIdBytes)
              /\ (HexInput(call.raw) /\ result.error = Null) =>
                    HexDigitCount(call.raw) = 2 * PolicyIdBytes
        /\ TheDescriptor.semantics = Str(<<"AssetName">>) =>
              /\ TheDescriptor.maxBytes = Num(AssetNameMaxBytes)
              /\ (HexInput(call.raw) /\ result.error = Null) =>
                    HexDigitCount(call.raw) <= 2 * AssetNameMaxBytes

\* the schema the descriptor was built from
DescribedSchema ==
    deref(Prop(flattenArg(Prop(call.validator, "parameters").e[1])[1], "schema"),
          Coalesce(call.definitions, Obj(<<>>)), {}).value

\* an optionally negative decimal integer literal
Literal(raw) ==
    \E k \in {0, 1} :
        /\ Len(raw) > k
        /\ k = 1 => raw[1] = "-"
        /\ \A i \in (k + 1)..Len(raw) : raw[i] \in DecimalDigits

\* the digits of a literal, and whether it denotes a negative number
DigitsOf(lit) == IF Head(lit) = "-" THEN Tail(lit) ELSE lit

Negative(lit) == Head(lit) = "-" /\ \E i \in 2..Len(lit) : lit[i] # "0"

\* the digits of a literal as numbers, padded with zeros to n places
Places(lit, n) ==
    [i \in 1..n |->
        IF i <= n - Len(DigitsOf(lit)) THEN 0
        ELSE HexVal(DigitsOf(lit)[i - (n - Len(DigitsOf(lit)))])]

Widest(a, b) ==
    IF Len(DigitsOf(a)) > Len(DigitsOf(b)) THEN Len(DigitsOf(a)) ELSE Len(DigitsOf(b))

\* |a| < |b|: at the first place where they differ, a has the smaller digit
AbsBelow(a, b) ==
    \E i \in 1..Widest(a, b) :
        /\ Places(a, Widest(a, b))[i] < Places(b, Widest(a, b))[i]
        /\ \A j \in 1..(i - 1) : Places(a, Widest(a, b))[j] = Places(b, Widest(a, b))[j]

\* a < b for the numbers two literals denote
Below(a, b) ==
    IF Negative(a) /\ ~Negative(b) THEN TRUE
    ELSE IF ~Negative(a) /\ Negative(b) THEN FALSE
    ELSE IF Negative(a) THEN AbsBelow(b, a)
    ELSE AbsBelow(a, b)

RECURSIVE NatLiteral(_)
NatLiteral(n) ==
    IF n < 10 THEN <<LowerHexDigits[n + 1]>>
    ELSE NatLiteral(n \div 10) \o <<LowerHexDigits[(n % 10) + 1]>>

\* the literal of a schema keyword, given as a number or as a text
KeywordLiteral(x) ==
    IF IsString(x) THEN x.s
    ELSE IF x.n < 0 THEN <<"-">> \o NatLiteral(-x.n) ELSE NatLiteral(x.n)

RECURSIVE DigitSum(_)
DigitSum(ds) == IF ds = <<>> THEN 0 ELSE HexVal(Head(ds)) + DigitSum(Tail(ds))

\* the number of the last (at most) two digits
LastTwo(ds) ==
    IF Len(ds) = 1 THEN HexVal(ds[1])
    ELSE 10 * HexVal(ds[Len(ds) - 1]) + HexVal(ds[Len(ds)])

\* divisibility of a literal by 3, 4 or 5, by the rules on decimal digits
MultipleOf(lit, m) ==
    CASE m = <<"3">> -> DigitSum(DigitsOf(lit)) % 3 = 0
      [] m = <<"4">> -> LastTwo(DigitsOf(lit)) % 4 = 0
      [] m = <<"5">> -> Last(lit) \in {"0", "5"}

Present(schema, k) == Prop(schema, k) # Undefined

WithinBounds(schema, lit) ==
    /\ Present(schema, "minimum") =>
          ~Below(lit, KeywordLiteral(Prop(schema, "minimum")))
    /\ Present(schema, "maximum") =>
          ~Below(KeywordLiteral(Prop(schema, "maximum")), lit)
    /\ Present(schema, "exclusiveMaximum") =>
          Below(lit, KeywordLiteral(Prop(schema, "exclusiveMaximum")))
    /\ Present(schema, "multipleOf") =>
          MultipleOf(lit, KeywordLiteral(Prop(schema, "multipleOf")))

\* the literal without sign of zero and without leading zeros
RECURSIVE DropZeros(_)
DropZeros(ds) == IF Len(ds) > 1 /\ Head(ds) = "0" THEN DropZeros(Tail(ds)) ELSE ds

Canonical(lit) ==
    (IF Negative(lit) THEN <<"-">> ELSE <<>>) \o DropZeros(DigitsOf(lit))

HEX(s) ==
    /\ s # <<>>
    /\ Head(s) = "0"
    /\ With(IF Len(s) >= 2 /\ s[2] = "x" THEN SubSeq(s, 3, Len(s)) ELSE Tail(s),
            LAMBDA rest : \A i \in 1..Len(rest) : rest[i] \in HexDigits)

\* INT_STR = /^-?\d+$/
INT_STR(s) == INT_RE(s)

\* toBigIntLike: the bigint of an integral number or of an integer text, else null
toBigIntLike(v) ==
    IF v.t = "number" /\ v.integral THEN ToBigInt(v).value
    ELSE IF IsString(v) /\ INT_STR(v.s) THEN StringToBigInt(v.s).value
    ELSE Null

\* z.union([z.number().int(), z.string().regex(INT_STR)]).refine(toBigIntLike(v) !== null)
\* A union without a valid option returns its first dirty option.
zIntLike(v, path) ==
    IF v.t = "number"
    THEN IF v.integral THEN Valid(v)
         ELSE Parsed(<<Issue(path, "invalid_type", <<"zod:", "invalid_type">>),
                       Issue(path, "custom", <<"must be an integer">>)>>, FALSE, v)
    ELSE IF IsString(v)
    THEN IF INT_STR(v.s) THEN Valid(v)
         ELSE Parsed(<<Issue(path, "invalid_string", <<"must be an integer string">>),
                       Issue(path, "custom", <<"must be an integer">>)>>, FALSE, v)
    ELSE Invalid(path, "invalid_union")

\* (toBigIntLike(v) as bigint) >= 0n, where null >= 0n is true
NonNegative(b) == b = Null \/ ~b.neg

\* (toBigIntLike(v) as bigint) > 0n, where null > 0n is false
Positive(b) == b # Null /\ ~b.neg /\ b.mag # <<>>

\* a further .refine on an effect: runs unless the inner parse aborted
Refined(r, holds, path, message) ==
    IF r.aborted \/ holds THEN r
    ELSE Parsed(r.issues \o <<Issue(path, "custom", <<message>>)>>, FALSE, r.value)

zNonNegIntLike(v, path) ==
    Refined(zIntLike(v, path), NonNegative(toBigIntLike(v)), path,
            "must be a non-negative integer")

zPosIntLike(v, path) ==
    Refined(zIntLike(v, path), Positive(toBigIntLike(v)), path,
            "must be a strictly positive integer")

Cip57DataTypeSchema ==
    {"integer", "bytes", "list", "map", "constructor", "#unit", "#boolean",
     "#integer", "#bytes", "#string", "#pair", "#list"}

\* Cip57DataTypeSchema.optional(): dataType is written as one token
ZOptDataType(v, path) ==
    IF v = Undefined THEN Valid(v)
    ELSE IF ~IsString(v) THEN Invalid(path, "invalid_type")
    ELSE IF Len(v.s) = 1 /\ v.s[1] \in Cip57DataTypeSchema THEN Valid(v)
    ELSE Invalid(path, "invalid_enum_value")

\* zHexEven: regex HEX, then even length after an 0x prefix is removed
zHexEven(v, path) ==
    IF ~IsString(v) THEN Invalid(path, "invalid_type")
    ELSE Parsed((IF HEX(v.s) THEN <<>>
                 ELSE <<Issue(path, "invalid_string", <<"must be hex (optional 0x prefix)">>)>>)
                \o (IF Len(Strip0x(v.s)) % 2 = 0 THEN <<>>
                    ELSE <<Issue(path, "custom", <<"hex length must be even">>)>>),
                FALSE, v)

\* z.boolean().optional()
ZOptBoolean(v, path) ==
    IF v = Undefined \/ v.t = "boolean" THEN Valid(v) ELSE Invalid(path, "invalid_type")

Optional(v, r) == IF v = Undefined THEN Valid(v) ELSE r

\* z.array(...) over the results of its elements; nonempty() adds too_small
ArrayOf(rs, nonempty, path) ==
    Collect(rs,
            IF nonempty /\ rs = <<>>
            THEN <<Issue(path, "too_small", <<"zod:", "too_small">>)>> ELSE <<>>,
            LAMBDA xs : Arr(Eager([i \in 1..Len(xs) |-> xs[i].value])))

\* the keywords of the object, in the order of the shape
Cip57Keywords ==
    <<"dataType", "title", "description", "$comment", "allOf", "anyOf", "oneOf", "not",
      "$ref", "enum", "maxLength", "minLength", "multipleOf", "maximum",
      "exclusiveMaximum", "minimum", "exclusiveMinimum", "items", "maxItems",
      "minItems", "uniqueItems", "keys", "values", "index", "fields">>

\* the superRefine of Cip57Schema without rule (c), the list keywords
Cip57RefineListUnchecked(obj, path) ==
    LET dt == Prop(obj, "dataType")
        hasIndex == Prop(obj, "index") # Undefined
        hasFields == Prop(obj, "fields") # Undefined
    IN  (IF (Truthy(Prop(obj, "enum")) \/ Prop(obj, "maxLength") # Undefined
               \/ Prop(obj, "minLength") # Undefined) /\ dt # Str(<<"bytes">>)
         THEN <<Issue(path, "custom", <<"bytes keywords require dataType bytes">>)>>
         ELSE <<>>)
        \o (IF (Prop(obj, "multipleOf") # Undefined \/ Prop(obj, "maximum") # Undefined
                  \/ Prop(obj, "exclusiveMaximum") # Undefined
                  \/ Prop(obj, "minimum") # Undefined
                  \/ Prop(obj, "exclusiveMinimum") # Undefined) /\ dt # Str(<<"integer">>)
            THEN <<Issue(path, "custom", <<"integer keywords require dataType integer">>)>>
            ELSE <<>>)
        \o (IF (Prop(obj, "keys") # Undefined \/ Prop(obj, "values") # Undefined)
                  /\ dt # Str(<<"map">>)
            THEN <<Issue(path, "custom", <<"map keywords require dataType map">>)>>
            ELSE <<>>)
        \o (IF dt = Str(<<"constructor">>)
            THEN IF ~hasIndex \/ ~hasFields
                 THEN <<Issue(path, "custom", <<"constructor requires both index and fields">>)>>
                 ELSE <<>>
            ELSE IF hasIndex \/ hasFields
                 THEN <<Issue(path, "custom",
                              <<"index/fields can only be used with dataType constructor">>)>>
                 ELSE <<>>)

\* the superRefine of Cip57Schema: rules (a) to (e), each adding one issue at
\* the node's own path
Cip57Refine(obj, path) ==
    LET dt == Prop(obj, "dataType")
        hasIndex == Prop(obj, "index") # Undefined
        hasFields == Prop(obj, "fields") # Undefined
    IN  (IF (Truthy(Prop(obj, "enum")) \/ Prop(obj, "maxLength") # Undefined
               \/ Prop(obj, "minLength") # Undefined) /\ dt # Str(<<"bytes">>)
         THEN <<Issue(path, "custom", <<"bytes keywords require dataType bytes">>)>>
         ELSE <<>>)
        \o (IF (Prop(obj, "multipleOf") # Undefined \/ Prop(obj, "maximum") # Undefined
                  \/ Prop(obj, "exclusiveMaximum") # Undefined
                  \/ Prop(obj, "minimum") # Undefined
                  \/ Prop(obj, "exclusiveMinimum") # Undefined) /\ dt # Str(<<"integer">>)
            THEN <<Issue(path, "custom", <<"integer keywords require dataType integer">>)>>
            ELSE <<>>)
        \o (IF (Prop(obj, "items") # Undefined \/ Prop(obj, "maxItems") # Undefined
                  \/ Prop(obj, "minItems") # Undefined
                  \/ Prop(obj, "uniqueItems") # Undefined) /\ dt # Str(<<"list">>)
            THEN <<Issue(path, "custom", <<"list keywords require dataType list">>)>>
            ELSE <<>>)
        \o (IF (Prop(obj, "keys") # Undefined \/ Prop(obj, "values") # Undefined)
                  /\ dt # Str(<<"map">>)
            THEN <<Issue(path, "custom", <<"map keywords require dataType map">>)>>
            ELSE <<>>)
        \o (IF dt = Str(<<"constructor">>)
            THEN IF ~hasIndex \/ ~hasFields
                 THEN <<Issue(path, "custom", <<"constructor requires both index and fields">>)>>
                 ELSE <<>>
            ELSE IF hasIndex \/ hasFields
                 THEN <<Issue(path, "custom",
                              <<"index/fields can only be used with dataType constructor">>)>>
                 ELSE <<>>)

\* Cip57Schema = z.lazy(() => z.object({...}).passthrough().superRefine(...)).
\* The refinement runs on the parsed object unless a member aborted.
RECURSIVE Cip57Schema(_, _)
Cip57SchemaArray(v, nonempty, path) ==
    IF ~IsArray(v) THEN Invalid(path, "invalid_type")
    ELSE ArrayOf(Eager([i \in 1..Len(v.e) |-> Cip57Schema(v.e[i], path \o <<Num(i - 1)>>)]),
                 nonempty, path)

\* items: z.union([Cip57Schema, z.array(Cip57Schema)])
Cip57Items(v, path) ==
    IF IsArray(v)
    THEN With(Cip57SchemaArray(v, FALSE, path),
              LAMBDA r : IF r.aborted THEN Invalid(path, "invalid_union") ELSE r)
    ELSE With(Cip57Schema(v, path),
              LAMBDA r : IF r.aborted THEN Invalid(path, "invalid_union") ELSE r)

Cip57Member(x, k, path) ==
    LET v == Get(x, k)
        p == path \o <<Seg(k)>>
    IN  CASE k = "dataType" -> ZOptDataType(v, p)
          [] k \in {"title", "description", "$comment", "$ref"} -> ZOptString(v, p)
          [] k \in {"allOf", "anyOf", "oneOf"} -> Optional(v, Cip57SchemaArray(v, TRUE, p))
          [] k \in {"not", "keys", "values"} -> Optional(v, Cip57Schema(v, p))
          [] k = "enum" ->
                Optional(v, IF ~IsArray(v) THEN Invalid(p, "invalid_type")
                            ELSE ArrayOf(Eager([i \in 1..Len(v.e) |->
                                                  zHexEven(v.e[i], p \o <<Num(i - 1)>>)]),
                                         FALSE, p))
          [] k \in {"maxLength", "minLength", "maxItems", "minItems", "index"} ->
                Optional(v, zNonNegIntLike(v, p))
          [] k = "multipleOf" -> Optional(v, zPosIntLike(v, p))
          [] k \in {"maximum", "exclusiveMaximum", "minimum", "exclusiveMinimum"} ->
                Optional(v, zIntLike(v, p))
          [] k = "items" -> Optional(v, Cip57Items(v, p))
          [] k = "uniqueItems" -> ZOptBoolean(v, p)
          [] k = "fields" -> Optional(v, Cip57SchemaArray(v, FALSE, p))

Cip57Schema(x, path) ==
    IF ~IsObject(x) THEN Invalid(path, "invalid_type")
    ELSE With(Collect(Eager([i \in 1..Len(Cip57Keywords) |->
                               Cip57Member(x, Cip57Keywords[i], path)]),
                      <<>>, LAMBDA rs : Passthrough(x, Cip57Keywords)),
              LAMBDA r : IF r.aborted THEN r
                         ELSE Parsed(r.issues \o Cip57Refine(r.value, path), FALSE, r.value))

\* Cip57Schema.safeParse(x)
Cip57SafeParse(x) ==
    With(Cip57Schema(x, <<>>),
         LAMBDA r : IF r.issues = <<>>
                    THEN [success |-> TRUE, data |-> r.value, issues |-> <<>>]
                    ELSE [success |-> FALSE, data |-> Undefined, issues |-> r.issues])

\* ---- schema nodes handed to the grammar ----

Typed(dt, kv) == Obj(<< <<"dataType", Str(<<dt>>)>> >> \o kv)

Text(chars) == Str(chars)

LegalLeaves ==
    { Obj(<<>>),
      Typed("bytes", <<>>),
      Typed("bytes", << <<"maxLength", Num(4)>> >>),
      Typed("bytes", << <<"minLength", Text(<<"2">>)>>,
                        <<"enum", Arr(<<Text(<<"0", "x", "a", "b">>)>>)>> >>),
      Typed("bytes", << <<"enum", Arr(<<>>)>> >>),
      Typed("integer", << <<"minimum", Num(-5)>>, <<"maximum", Text(<<"1", "0", "0">>)>>,
                          <<"multipleOf", Num(3)>> >>),
      Typed("integer", << <<"exclusiveMaximum", Num(0)>>, <<"exclusiveMinimum", Num(0)>> >>),
      Typed("list", << <<"items", Typed("integer", <<>>)>> >>),
      Typed("list", << <<"items", Arr(<<Typed("bytes", <<>>), Obj(<<>>)>>)>>,
                       <<"maxItems", Num(2)>>, <<"minItems", Num(0)>>,
                       <<"uniqueItems", Bool(FALSE)>> >>),
      Typed("map", << <<"keys", Typed("bytes", <<>>)>>, <<"values", Obj(<<>>)>> >>),
      Typed("constructor", << <<"index", Num(0)>>, <<"fields", Arr(<<>>)>> >>),
      Typed("constructor", << <<"title", Str(<<"Some">>)>>, <<"index", Text(<<"1">>)>>,
                              <<"fields", Arr(<<Typed("integer", <<>>)>>)>> >>),
      Typed("#unit", <<>>),
      Obj(<< <<"$ref", Str(<<"#/", "definitions", "/", "Foo">>)>>,
             <<"description", Str(<<"a reference">>)>> >>) }

\* nodes with keys the grammar does not know
UnknownKeyLeaves ==
    { Typed("bytes", << <<"x-ui", Str(<<"hex">>)>> >>),
      Typed("#pair", << <<"left", Typed("integer", <<>>)>>, <<"right", Obj(<<>>)>> >>),
      Typed("integer", << <<"x-hint", Obj(<< <<"items", Obj(<<>>)>> >>)>> >>),
      Obj(<< <<"default", Null>>, <<"examples", Arr(<<Num(1)>>)>> >>),
      Typed("integer", << <<"maxLength", Num(4)>>, <<"x-ui", Str(<<"hex">>)>> >>) }

\* well-formed members that break a cross-field rule
IllegalLeaves ==
    { Typed("integer", << <<"maxLength", Num(4)>> >>),
      Obj(<< <<"enum", Arr(<<>>)>> >>),
      Typed("#bytes", << <<"minLength", Num(1)>> >>),
      Typed("list", << <<"enum", Arr(<<Text(<<"0", "0">>)>>)>> >>),
      Typed("map", << <<"maxLength", Num(0)>> >>),
      Typed("bytes", << <<"minimum", Num(0)>> >>),
      Obj(<< <<"multipleOf", Num(2)>> >>),
      Typed("#integer", << <<"maximum", Num(1)>> >>),
      Typed("list", << <<"exclusiveMinimum", Text(<<"-", "1">>)>> >>),
      Typed("bytes", << <<"exclusiveMaximum", Num(9)>> >>),
      Obj(<< <<"items", Obj(<<>>)>> >>),
      Typed("#list", << <<"items", Obj(<<>>)>> >>),
      Typed("map", << <<"uniqueItems", Bool(FALSE)>> >>),
      Typed("bytes", << <<"maxItems", Num(0)>> >>),
      Typed("integer", << <<"minItems", Num(1)>> >>),
      Obj(<< <<"keys", Obj(<<>>)>> >>),
      Typed("list", << <<"values", Obj(<<>>)>>, <<"items", Obj(<<>>)>> >>),
      Typed("constructor", << <<"index", Num(0)>> >>),
      Typed("constructor", << <<"fields", Arr(<<>>)>> >>),
      Typed("constructor", <<>>),
      Obj(<< <<"index", Num(0)>> >>),
      Obj(<< <<"fields", Arr(<<>>)>> >>),
      Typed("integer", << <<"index", Num(0)>>, <<"fields", Arr(<<>>)>> >>) }

\* nodes with a member of the wrong form
MalformedLeaves ==
    { Typed("float", <<>>),
      Obj(<< <<"dataType", Num(5)>> >>),
      Typed("bytes", << <<"maxLength", Num(-1)>> >>),
      Typed("integer", << <<"multipleOf", Num(0)>> >>),
      Typed("bytes", << <<"enum", Arr(<<Text(<<"a", "b">>)>>)>> >>),
      Typed("bytes", << <<"enum", Arr(<<Text(<<"0", "x", "a">>)>>)>> >>),
      Typed("integer", << <<"minimum", Frac(1)>> >>),
      Typed("integer", << <<"maximum", Text(<<"1", "e", "3">>)>> >>),
      Typed("integer", << <<"multipleOf", Frac(1)>> >>),
      Obj(<< <<"allOf", Arr(<<>>)>> >>),
      Obj(<< <<"title", Num(5)>> >>),
      Typed("list", << <<"uniqueItems", Str(<<"yes">>)>> >>),
      Typed("constructor", << <<"index", Bool(TRUE)>>, <<"fields", Arr(<<>>)>> >>),
      Typed("map", << <<"keys", Null>> >>),
      Null,
      Str(<<"integer">>),
      Arr(<<>>) }

Leaves == LegalLeaves \cup UnknownKeyLeaves \cup IllegalLeaves \cup MalformedLeaves

\* a node that holds `child` under one of the keys, itself legal
Wrappers == {"allOf", "anyOf", "oneOf", "not", "items", "itemsArray", "keys", "values",
             "fields", "x-unknown"}

Wrap1(k, child) ==
    CASE k = "allOf" -> Obj(<< <<"allOf", Arr(<<child>>)>> >>)
      [] k = "anyOf" -> Typed("integer", << <<"anyOf", Arr(<<Obj(<<>>), child>>)>> >>)
      [] k = "oneOf" -> Obj(<< <<"title", Str(<<"Choice">>)>>, <<"oneOf", Arr(<<child>>)>> >>)
      [] k = "not" -> Obj(<< <<"not", child>> >>)
      [] k = "items" -> Typed("list", << <<"items", child>> >>)
      [] k = "itemsArray" -> Typed("list", << <<"items", Arr(<<child, Obj(<<>>)>>)>> >>)
      [] k = "keys" -> Typed("map", << <<"keys", child>>, <<"values", Obj(<<>>)>> >>)
      [] k = "values" -> Typed("map", << <<"keys", Obj(<<>>)>>, <<"values", child>> >>)
      [] k = "fields" ->
            Typed("constructor", << <<"index", Num(0)>>, <<"fields", Arr(<<child>>)>> >>)
      [] k = "x-unknown" -> Obj(<< <<"x-unknown", child>> >>)

\* bound on the nesting of the nodes
MaxDepth == 2

RECURSIVE NodesUpTo(_)
NodesUpTo(depth) ==
    IF depth = 0 THEN Leaves
    ELSE NodesUpTo(depth - 1)
         \cup { Wrap1(k, n) : k \in (IF depth = 1 THEN Wrappers ELSE {"anyOf", "not", "fields"}),
                              n \in NodesUpTo(depth - 1) }

GrammarInputs == NodesUpTo(MaxDepth)

(***************************************************************************)
(* Specification of Cip57Schema.safeParse                                  *)
(***************************************************************************)
InitGrammar ==
    /\ call \in GrammarInputs
    /\ pc = "call"
    /\ result = Undefined
    /\ input = Undefined
    /\ ran = {}
    /\ validated = <<>>
    /\ cursor = 1
    /\ out = NoValidators
    /\ store = Undefined
    /\ inflight = Undefined

ParseSchema ==
    /\ pc = "call"
    /\ result' = Cip57SafeParse(call)
    /\ pc' = "returned"
    /\ UNCHANGED <<call, input, ran, validated, cursor, out, store, inflight>>

NextGrammar == ParseSchema

SpecGrammar == InitGrammar /\ [][NextGrammar]_vars

(***************************************************************************)
(* C24                                                                     *)
(***************************************************************************)

\* the children of a node that the grammar reads as schema nodes
ListOf(v) == IF IsArray(v) THEN v.e ELSE IF v = Undefined THEN <<>> ELSE <<v>>

ChildNodes(n) ==
    IF ~IsObject(n) THEN {}
    ELSE UNION { Range(ListOf(Get(n, k))) :
                   k \in {"allOf", "anyOf", "oneOf", "not", "items", "keys", "values", "fields"} }

\* the node and all nodes below it
RECURSIVE NodesOf(_)
NodesOf(n) == {n} \cup UNION { NodesOf(c) : c \in ChildNodes(n) }

OnlyWith(n, keywords, dt) ==
    (\E k \in keywords : HasKey(n, k)) => Get(n, "dataType") = Str(<<dt>>)

Legal(n) ==
    /\ IsObject(n)
    /\ OnlyWith(n, {"enum", "minLength", "maxLength"}, "bytes")
    /\ OnlyWith(n, {"multipleOf", "maximum", "exclusiveMaximum", "minimum",
                    "exclusiveMinimum"}, "integer")
    /\ OnlyWith(n, {"items", "maxItems", "minItems", "uniqueItems"}, "list")
    /\ OnlyWith(n, {"keys", "values"}, "map")
    /\ OnlyWith(n, {"index", "fields"}, "constructor")
    /\ Get(n, "dataType") = Str(<<"constructor">>) => HasKey(n, "index") /\ HasKey(n, "fields")

\* the node with the keys the grammar does not know removed, at every depth
RECURSIVE Known(_)
Known(n) ==
    IF IsArray(n) THEN Arr(Eager([i \in 1..Len(n.e) |-> Known(n.e[i])]))
    ELSE IF ~IsObject(n) THEN n
    ELSE Obj(Eager([i \in 1..Len(ShapePairs(n, Cip57Keywords)) |->
                <<ShapePairs(n, Cip57Keywords)[i][1],
                  IF ShapePairs(n, Cip57Keywords)[i][1]
                        \in {"allOf", "anyOf", "oneOf", "not", "items", "keys", "values", "fields"}
                  THEN Known(ShapePairs(n, Cip57Keywords)[i][2])
                  ELSE ShapePairs(n, Cip57Keywords)[i][2]>>]))

\* C24: every node of a schema accepted by Cip57Schema, at any depth below
\* allOf/anyOf/oneOf/not/items/keys/values/fields, keeps the cross-field
\* rules: enum/minLength/maxLength only with dataType bytes, the numeric
\* bounds and multipleOf only with integer, items/maxItems/minItems/
\* uniqueItems only with list, keys/values only with map, index and fields
\* only with constructor, and a constructor node has both; the keys the
\* grammar does not know never change acceptance.
C24_CrossFieldLegality ==
    pc = "returned" =>
        /\ result.success => \A n \in NodesOf(call) : Legal(n)
        /\ result.success = Cip57SafeParse(Known(call)).success

\* an accepted schema whose constructor, below anyOf or not, has a field with
\* a key the grammar does not know
C24_Witness ==
    /\ pc = "returned"
    /\ result.success
    /\ \E n \in NodesOf(call) :
          /\ n # call
          /\ Get(n, "dataType") = Str(<<"constructor">>)
          /\ \E c \in ChildNodes(n) :
                IsObject(c) /\ ExtraPairs(c.kv, Range(Cip57Keywords)) # <<>>

(***************************************************************************)
(* lib/params/applyParams.ts: buildValidatorArtifactsFromRaw and           *)
(* buildValidatorArtifactsFromParsed, for calls without user inputs.       *)
(* A ParsedJson is the record returned by parseAikenBlueprintStrict, whose *)
(* validators field is the table keyed by base; any other value is a JSON  *)
(* value.  Titles and names of JSON fixtures are character sequences.      *)
(***************************************************************************)

\* parseAikenBlueprint: the validation failure as it is, else the grouped
\* document; a throw of the grouping pass propagates
parseAikenBlueprint(inp) ==
    With(validateAikenBlueprint(inp).result,
         LAMBDA res :
            IF ~res.ok THEN Returns(res)
            ELSE With(parseAikenBlueprintStrict(res.data.validators),
                      LAMBDA g :
                         IF g.threw THEN Thrown("TypeError: Cannot set properties of undefined")
                         ELSE Returns([t |-> "parsed",
                                       plutusVersion |-> Get(res.data.preamble, "plutusVersion"),
                                       validators |-> g.out])))

IsParsedJson(bp) == "t" \in DOMAIN bp /\ bp.t = "parsed"

\* (parsed as any).ok === false
OkIsFalse(x) == "ok" \in DOMAIN x /\ x.ok = FALSE

UpperChar(c) ==
    IF \E i \in 1..Len(LowerLetters) : LowerLetters[i] = c
    THEN UpperLetters[CHOOSE i \in 1..Len(LowerLetters) : LowerLetters[i] = c]
    ELSE c

\* String.prototype.toUpperCase
toUpperCase(s) == Eager([i \in 1..Len(s) |-> UpperChar(s[i])])

\* (v?.toUpperCase()) ?? "V3"
toMeshPlutusVersion(v) ==
    IF v \in {Undefined, Null} THEN <<"V", "3">> ELSE toUpperCase(v.s)

\* bp.preamble?.plutusVersion: a ParsedJson has no preamble
PreamblePlutusVersion(bp) ==
    IF IsParsedJson(bp) THEN Undefined ELSE Prop(Prop(bp, "preamble"), "plutusVersion")

\* x.title === name || x.name === name
Named(x, name) == Prop(x, "title") = name \/ Prop(x, "name") = name

\* getValidatorByName: (bp.validators ?? []).find(...).  find exists on arrays
\* only: on the table of a ParsedJson, and on any other non-array value, the
\* call of vs.find throws a TypeError.
getValidatorByName(bp, name) ==
    LET vs == IF IsParsedJson(bp) THEN bp.validators
              ELSE Coalesce(Prop(bp, "validators"), Arr(<<>>))
    IN  IF IsParsedJson(bp) \/ ~IsArray(vs)
        THEN Thrown("TypeError: vs.find is not a function")
        ELSE IF \A i \in 1..Len(vs.e) : ~Named(vs.e[i], name)
        THEN Thrown("Error: Validator not found")
        ELSE With(vs.e[CHOOSE i \in 1..Len(vs.e) :
                          Named(vs.e[i], name) /\ \A j \in 1..(i - 1) : ~Named(vs.e[j], name)],
                  LAMBDA v : IF ~Truthy(Prop(v, "compiledCode"))
                             THEN Thrown("Error: Validator is missing compiledCode")
                             ELSE Returns(v))

WordChars == Range(UpperLetters) \cup Range(LowerLetters) \cup DecimalDigits \cup {"_"}

\* the longest suffix of s made of word characters
RECURSIVE WordSuffix(_)
WordSuffix(s) ==
    IF s # <<>> /\ Last(s) \in WordChars THEN WordSuffix(Front(s)) \o <<Last(s)>> ELSE <<>>

PurposeWords ==
    { <<"m", "i", "n", "t">>, <<"s", "p", "e", "n", "d">>,
      <<"w", "i", "t", "h", "d", "r", "a", "w">>, <<"p", "u", "b", "l", "i", "s", "h">>,
      <<"v", "o", "t", "e">>, <<"p", "r", "o", "p", "o", "s", "e">> }

UnknownPurpose == <<"u", "n", "k", "n", "o", "w", "n">>

\* inferPurposeFromTitle: /\[(\w+)\]\s*$/ and the lower-cased word
inferPurposeFromTitle(title) ==
    LET t == TrimEnd(title)
        word == WordSuffix(Front(t))
    IN  IF t # <<>> /\ Last(t) = "]" /\ word # <<>>
           /\ Len(t) >= Len(word) + 2 /\ t[Len(t) - Len(word) - 1] = "["
           /\ toLowerCase(word) \in PurposeWords
        THEN toLowerCase(word)
        ELSE UnknownPurpose

\* resolveScriptHash and resolvePlutusScriptAddress of the Mesh SDK: values
\* determined by their arguments
resolveScriptHash(code) == [hashOf |-> code]

resolvePlutusScriptAddress(plutusScript, networkId) ==
    [addressOf |-> plutusScript, networkId |-> networkId]

\* v.parameters ?? v.params ?? []
SchemasOf(v) == Coalesce(Coalesce(Prop(v, "parameters"), Prop(v, "params")), Arr(<<>>))

\* v.title ?? v.name ?? validatorName
TitleOf(v, validatorName) ==
    Coalesce(Coalesce(Prop(v, "title"), Prop(v, "name")), validatorName)

\* buildValidatorArtifactsFromParsed when userInputs is null or undefined:
\* shouldApply is false and the script is the validator's compiledCode
buildValidatorArtifactsFromParsed(bp, validatorName, networkId) ==
    With(getValidatorByName(bp, validatorName),
         LAMBDA found :
            IF found.threw THEN found
            ELSE With([code |-> Prop(found.value, "compiledCode"),
                       version |-> toMeshPlutusVersion(PreamblePlutusVersion(bp))],
                      LAMBDA plutusScript :
                         With(inferPurposeFromTitle(TitleOf(found.value, validatorName).s),
                              LAMBDA purpose :
                                 Returns([scriptCbor |-> plutusScript.code,
                                          plutusScript |-> plutusScript,
                                          scriptHash |-> resolveScriptHash(plutusScript.code),
                                          scriptAddress |->
                                             IF purpose = <<"s", "p", "e", "n", "d">>
                                             THEN resolvePlutusScriptAddress(plutusScript,
                                                                             networkId)
                                             ELSE Undefined,
                                          purpose |-> purpose]))))

\* buildValidatorArtifactsFromRaw when userInputs is null or undefined.
\* parsed.ok === false holds for a validation failure only: a ParsedJson
\* has no ok field.
buildValidatorArtifactsFromRaw(rawBlueprint, validatorName, networkId) ==
    With(parseAikenBlueprint(rawBlueprint),
         LAMBDA parsed :
            IF parsed.threw THEN parsed
            ELSE IF OkIsFalse(parsed.value)
            THEN Thrown("Error: Invalid Aiken blueprint: failed validation")
            ELSE buildValidatorArtifactsFromParsed(parsed.value, validatorName, networkId))

\* ---- calls of buildValidatorArtifactsFromRaw and ...FromParsed ----

Chars(title) == Str(title)

BuildEntries ==
    { RawEntry(<<"a", ".", "spend">>, CodeA, Hash56("a"), Undefined),
      RawEntry(<<"a", ".", "mint">>, CodeA, Hash56("a"), Undefined),
      RawEntry(<<"a", ".", "mint">>, CodeB, Hash56("a"), Undefined),
      RawEntry(<<"b", ".", "spend">>, CodeB, Undefined, ParamsPQ),
      RawEntry(<<"a", ".", "else">>, Undefined, Hash56("a"), Undefined),
      RawEntry(<<"c", ".", "spend">>, Undefined, Undefined, Undefined),
      RawEntry(<<"toString", ".", "spend">>, CodeA, Undefined, Undefined) }

\* bound on the number of validator entries of a document
MaxBuildEntries == 2

BuildDocs ==
    { RawDoc(PreambleOk, Arr(es), <<>>) :
        es \in UNION { [1..n -> BuildEntries] : n \in 1..MaxBuildEntries } }
    \cup { Null, Garbage,
           SerialOf(RawDoc(PreambleOk,
                Arr(<<RawEntry(<<"a", ".", "spend">>, CodeA, Hash56("a"), Undefined)>>), <<>>)) }

BuildNames ==
    { Str(<<"a", ".", "spend">>), Str(<<"a">>), Str(<<"b", ".", "spend">>), Str(<<"b">>),
      Str(<<"zzz">>) }

\* parsed blueprints in the array shape: entries with title or name, with and
\* without compiledCode
Fixture(key, title, code, params) ==
    Obj(<< <<key, Chars(title)>> >> \o OptPair("compiledCode", code)
        \o OptPair("parameters", params))

SpendTitle == <<"m", ".", "v", "[", "s", "p", "e", "n", "d", "]">>
MintTitle == <<"m", ".", "v", "[", "M", "i", "n", "t", "]", " ">>
PlainTitle == <<"m", ".", "v">>
OddTitle == <<"m", "[", "s", "p", "e", "n", "d", "]", "x">>

FixtureEntries ==
    { Fixture("title", SpendTitle, Str(<<"CBOR_ORIGINAL">>), Arr(<<>>)),
      Fixture("title", MintTitle, Str(<<"CBOR_MINT">>), Undefined),
      Fixture("name", PlainTitle, Str(<<"CBOR_PLAIN">>), Arr(<<>>)),
      Fixture("title", OddTitle, Str(<<"CBOR_ODD">>), Undefined),
      Fixture("title", SpendTitle, Undefined, Arr(<<>>)),
      Fixture("title", PlainTitle, Str(<<>>), Undefined) }

FixturePreambles ==
    { Obj(<< <<"plutusVersion", Str(<<"v", "3">>)>> >>),
      Obj(<< <<"plutusVersion", Str(<<"v", "2">>)>> >>),
      Undefined }

FixtureBlueprints ==
    { Obj(OptPair("preamble", p) \o << <<"validators", Arr(es)>> >>) :
        p \in FixturePreambles,
        es \in UNION { [1..n -> FixtureEntries] : n \in 1..MaxBuildEntries } }
    \cup { Obj(<<>>),
           Obj(<< <<"validators", Obj(<< <<"m.v", Fixture("title", SpendTitle,
                                                Str(<<"CBOR_ORIGINAL">>), Undefined)>> >>)>> >>) }

FixtureNames == { Chars(SpendTitle), Chars(MintTitle), Chars(PlainTitle), Chars(OddTitle) }

NetworkIds == {0, 1}

BuildCalls ==
    { [from |-> "raw", blueprint |-> d, validatorName |-> n, networkId |-> id,
       userInputs |-> u] :
        d \in BuildDocs, n \in BuildNames, id \in NetworkIds, u \in {Undefined, Null} }
    \cup { [from |-> "parsed", blueprint |-> bp, validatorName |-> n, networkId |-> id,
            userInputs |-> Null] :
             bp \in FixtureBlueprints, n \in FixtureNames, id \in NetworkIds }

(***************************************************************************)
(* Specification of buildValidatorArtifactsFromRaw and                     *)
(* buildValidatorArtifactsFromParsed                                       *)
(***************************************************************************)
InitBuild ==
    /\ call \in BuildCalls
    /\ pc = "call"
    /\ result = Undefined
    /\ input = Undefined
    /\ ran = {}
    /\ validated = <<>>
    /\ cursor = 1
    /\ out = NoValidators
    /\ store = Undefined
    /\ inflight = Undefined

BuildFromRaw ==
    /\ pc = "call"
    /\ call.from = "raw"
    /\ result' = buildValidatorArtifactsFromRaw(call.blueprint, call.validatorName,
                                                call.networkId)
    /\ pc' = "returned"
    /\ UNCHANGED <<call, input, ran, validated, cursor, out, store, inflight>>

BuildFromParsed ==
    /\ pc = "call"
    /\ call.from = "parsed"
    /\ result' = buildValidatorArtifactsFromParsed(call.blueprint, call.validatorName,
                                                   call.networkId)
    /\ pc' = "returned"
    /\ UNCHANGED <<call, input, ran, validated, cursor, out, store, inflight>>

NextBuild == BuildFromRaw \/ BuildFromParsed

SpecBuild == InitBuild /\ [][NextBuild]_vars

(***************************************************************************)
(* C25                                                                     *)
(***************************************************************************)

\* the raw document as a JSON value
RawJson(d) == IF IsString(d) THEN JSONparse(d).value ELSE d

PassesValidation(d) == validateAikenBlueprint(d).result.ok

\* the compiledCode values of the validators of the document that the name
\* names: by the title of an entry, or by the base of its title
CodesNamed(d, name) ==
    { Get(e, "compiledCode") :
        e \in { x \in Range(Get(RawJson(d), "validators").e) :
                  /\ HasKey(x, "compiledCode")
                  /\ \/ Get(x, "title") = name
                     \/ splitBaseAndPurpose(Get(x, "title").s).base = name.s } }

InvalidBlueprintThrown ==
    result.threw /\ result.error = "Error: Invalid Aiken blueprint: failed validation"

\* C25: buildValidatorArtifactsFromRaw parses first and then builds: for a
\* raw document that passes validation and the name of one of its validators
\* that has compiledCode, without user inputs, it returns artifacts whose
\* scriptCbor is that validator's compiledCode; it throws the `Invalid Aiken
\* blueprint` error only when the parse reports a validation failure.
C25_ParseFirstThenBuild ==
    (pc = "returned" /\ call.from = "raw") =>
        /\ (PassesValidation(call.blueprint)
              /\ CodesNamed(call.blueprint, call.validatorName) # {}) =>
                 /\ ~result.threw
                 /\ result.value.scriptCbor \in CodesNamed(call.blueprint, call.validatorName)
        /\ InvalidBlueprintThrown => ~PassesValidation(call.blueprint)

====
